---- MODULE Spec2Model ----
(***************************************************************************)
(* DHCPv6 client socket of smoltcp (src/socket/dhcpv6.rs) as a state       *)
(* machine, with the DHCPv6 codec (src/wire/dhcpv6.rs), the waker          *)
(* registration (src/socket/waker.rs) and the socket set                   *)
(* (src/iface/socket_set.rs) it is used with.  Time is counted in          *)
(* milliseconds: every Instant and Duration the socket computes is a whole *)
(* number of milliseconds.                                                 *)
(***************************************************************************)
EXTENDS Integers, Sequences, FiniteSets, TLC

(***************************************************************************)
(* Bounds of the model.                                                    *)
(***************************************************************************)
\* The clock `now` runs from 0 to MaxTime seconds.
MaxTime == 3

(***************************************************************************)
(* Option<T>: None is the empty tuple, Some(x) the one-element tuple.      *)
(***************************************************************************)
None == <<>>
Some(x) == <<x>>
IsSome(o) == o # <<>>
Unwrap(o) == o[1]

Min(a, b) == IF a <= b THEN a ELSE b
Max(a, b) == IF a >= b THEN a ELSE b

\* A byte string of n bytes, all equal to b.
Bytes(n, b) == [i \in 1..n |-> b]

(***************************************************************************)
(* Time: Duration::from_secs and Instant::from_millis, in milliseconds, so *)
(* that leases of hours stay within the integers of the model checker.     *)
(***************************************************************************)
from_secs(s) == s * 1000
from_millis(ms) == ms

(***************************************************************************)
(* Program constants.                                                      *)
(***************************************************************************)
MAX_IDENTIFIER_LEN == 128
DHCP_MAX_DNS_SERVER_COUNT == 16
\* 2^24: value & 0xff_ffff is value % 2^24
XID_MASK == 16777216
PREFERRED_LIFETIME == 604800
VALID_LIFETIME == 2592000
OPT_DNS_SERVERS == 23
BACKOFF_RETRY_CAP == 16

\* heapless::Vec<u8, N>::extend_from_slice(s).ok() on an empty vector: the
\* slice is copied when it fits and the vector stays empty when it does not.
VecFromSlice(s, cap) == IF Len(s) <= cap THEN s ELSE <<>>

\* Packet::set_transaction_id: only the low 24 bits reach the wire.
set_transaction_id_Unmasked(value) == value

set_transaction_id(value) == value % XID_MASK

(***************************************************************************)
(* Addresses.  An IPv6 address is its 16 bytes.                            *)
(***************************************************************************)
Addr(first, last) == [i \in 1..16 |-> IF i = 1 THEN first ELSE IF i = 16 THEN last ELSE 0]
UNSPECIFIED == Addr(0, 0)
LINK_LOCAL_ALL_ROUTERS == [i \in 1..16 |-> IF i = 1 THEN 255 ELSE IF i = 2 THEN 2 ELSE IF i = 16 THEN 2 ELSE 0]
is_unicast(a) == ~(a[1] = 255) /\ a # UNSPECIFIED

(***************************************************************************)
(* The DHCPv6 wire format (src/wire/dhcpv6.rs).  A byte string is a        *)
(* sequence of numbers in 0..255.  A parser returns Ok(value) or Err, or   *)
(* panics on an index or a slice outside the data.                         *)
(***************************************************************************)
OPT_CLIENTID == 1
OPT_SERVERID == 2
OPT_IA_NA == 3
OPT_IA_TA == 4
OPT_ORO == 6
OPT_ELAPSED_TIME == 8
OPT_STATUS_CODE == 13
OPT_IA_PD == 25
MAX_REQUEST_OPTIONS == 16
MAX_IA_ADDRESSES == 16
MAX_DNS_ADDRESSES == 16
\* field::OPTIONS.start: the length of the header.
HEADER_LEN == 4
\* const REQUEST_OPTION_BYTE_LEN in Repr::parse
REQUEST_OPTION_BYTE_LEN == 4

Ok(v) == [tag |-> "Ok", value |-> v]
Err == [tag |-> "Err"]
Panic == [tag |-> "Panic"]

\* &buf[n..]
Drop(buf, n) == SubSeq(buf, n + 1, Len(buf))
\* NetworkEndian::read_u16, read_u24 and u32::from_be_bytes on the first bytes.
read_u16(buf) == buf[1] * 256 + buf[2]
read_u24(buf) == (buf[1] * 256 + buf[2]) * 256 + buf[3]
read_u32(buf) == ((buf[1] * 256 + buf[2]) * 256 + buf[3]) * 256 + buf[4]

\* heapless::Vec::push(..).ok(): the element is dropped when the vector is full.
VecPush(v, x, cap) == IF Len(v) < cap THEN Append(v, x) ELSE v

\* MessageType::from(u8) and StatusCode::from(u16)
MessageTypeFrom(b) ==
    CASE b = 1 -> "Solicit" [] b = 2 -> "Advertise" [] b = 3 -> "Request"
      [] b = 4 -> "Confirm" [] b = 5 -> "Renew" [] b = 6 -> "Rebind"
      [] b = 7 -> "Reply" [] b = 8 -> "Release" [] b = 9 -> "Decline"
      [] OTHER -> "Unknown"
StatusCodeFrom(c) ==
    CASE c = 0 -> "Success" [] c = 1 -> "UnspecFail" [] c = 2 -> "NoAddrsAvail"
      [] c = 3 -> "NoBinding" [] c = 4 -> "NotOnLink" [] c = 5 -> "UseMulticast"
      [] c = 6 -> "NoPrefixAvail" [] OTHER -> "Unknown"

\* parse_options: the complete leading options of buf, in order.
RECURSIVE parse_options(_)
parse_options(buf) ==
    IF Len(buf) < 4 THEN <<>>
    ELSE LET kind == read_u16(buf)
             rest == Drop(buf, 2)
             len == read_u16(rest)
         IN  IF Len(rest) < 2 + len THEN <<>>
             ELSE <<[kind |-> kind, data |-> SubSeq(rest, 3, 2 + len)]>>
                  \o parse_options(Drop(rest, 2 + len))

\* ReprIaAddr::parse: 16 bytes of address and two u32 are indexed unchecked.
ReprIaAddr_parse(data) ==
    IF Len(data) < 24 THEN Panic
    ELSE Ok([addr |-> SubSeq(data, 1, 16),
             preferred_lifetime |-> read_u32(Drop(data, 16)),
             valid_lifetime |-> read_u32(Drop(data, 20))])

\* ReprStatusCode::parse
ReprStatusCode_parse(data) ==
    IF Len(data) < 2 THEN Err ELSE Ok(StatusCodeFrom(read_u16(data)))

\* The option loop of ReprIaNa::parse and ReprIaTa::parse: the addresses and
\* the status code, or the first error or panic of a nested parser.
RECURSIVE ParseIaOptions(_, _)
ParseIaOptions(options, acc) ==
    IF options = <<>> THEN Ok(acc)
    ELSE LET option == Head(options)
         IN  IF option.kind = OPT_IA_PD
             THEN LET a == ReprIaAddr_parse(option.data)
                  IN  IF a.tag # "Ok" THEN a
                      ELSE ParseIaOptions(Tail(options),
                              [acc EXCEPT !.addresses = VecPush(@, a.value, MAX_IA_ADDRESSES)])
             ELSE IF option.kind = OPT_STATUS_CODE
             THEN LET c == ReprStatusCode_parse(option.data)
                  IN  IF c.tag # "Ok" THEN c
                      ELSE ParseIaOptions(Tail(options),
                              [acc EXCEPT !.status_code = Some(c.value)])
             ELSE ParseIaOptions(Tail(options), acc)

\* ReprIaNa::parse: iaid, T1 and T2 are indexed unchecked.
ReprIaNa_parse(data) ==
    IF Len(data) < 12 THEN Panic
    ELSE LET r == ParseIaOptions(parse_options(Drop(data, 12)),
                                 [addresses |-> <<>>, status_code |-> None])
         IN  IF r.tag # "Ok" THEN r
             ELSE Ok([iaid |-> read_u32(data), t1 |-> read_u32(Drop(data, 4)),
                      t2 |-> read_u32(Drop(data, 8)),
                      addresses |-> r.value.addresses,
                      status_code |-> r.value.status_code])

\* ReprIaTa::parse: the iaid is indexed unchecked.
ReprIaTa_parse(data) ==
    IF Len(data) < 4 THEN Panic
    ELSE LET r == ParseIaOptions(parse_options(Drop(data, 4)),
                                 [addresses |-> <<>>, status_code |-> None])
         IN  IF r.tag # "Ok" THEN r
             ELSE Ok([iaid |-> read_u32(data), addresses |-> r.value.addresses,
                      status_code |-> r.value.status_code])

\* ReprDnsServers::parse: the complete 16-byte addresses, as many as fit.
RECURSIVE DnsAddresses(_, _)
DnsAddresses(data, acc) ==
    IF Len(data) < 16 THEN acc
    ELSE DnsAddresses(Drop(data, 16), VecPush(acc, SubSeq(data, 1, 16), MAX_DNS_ADDRESSES))
ReprDnsServers_parse(data) == Ok([addresses |-> DnsAddresses(data, <<>>)])

\* The OPT_ORO arm of Repr::parse: read_u16 on every chunk of the data; it
\* panics on a last chunk of one byte.
RECURSIVE RequestOptions(_, _)
RequestOptions(data, acc) ==
    IF data = <<>> THEN Ok(acc)
    ELSE IF Len(data) < 2 THEN Panic
    ELSE RequestOptions(Drop(data, Min(REQUEST_OPTION_BYTE_LEN, Len(data))),
                        VecPush(acc, read_u16(data), MAX_REQUEST_OPTIONS))

\* The option loop of Repr::parse.
RECURSIVE ParseReprOptions(_, _)
ParseReprOptions(options, acc) ==
    IF options = <<>> THEN Ok(acc)
    ELSE LET option == Head(options)
             data == option.data
             rest == Tail(options)
             sub == CASE option.kind = OPT_IA_NA -> ReprIaNa_parse(data)
                      [] option.kind = OPT_IA_TA -> ReprIaTa_parse(data)
                      [] option.kind = OPT_DNS_SERVERS -> ReprDnsServers_parse(data)
                      [] option.kind = OPT_ORO -> RequestOptions(data, <<>>)
                      [] OTHER -> Ok(data)
         IN  IF sub.tag # "Ok" THEN sub
             ELSE CASE option.kind = OPT_CLIENTID ->
                         ParseReprOptions(rest, [acc EXCEPT !.client_id = Some(data)])
                    [] option.kind = OPT_SERVERID ->
                         ParseReprOptions(rest, [acc EXCEPT !.server_id = Some(data)])
                    [] option.kind = OPT_ELAPSED_TIME /\ Len(data) = 2 ->
                         ParseReprOptions(rest, [acc EXCEPT !.elapsed_time = Some(read_u16(data))])
                    [] option.kind = OPT_IA_NA ->
                         ParseReprOptions(rest, [acc EXCEPT !.ia_na = Some(sub.value)])
                    [] option.kind = OPT_IA_TA ->
                         ParseReprOptions(rest, [acc EXCEPT !.ia_ta = Some(sub.value)])
                    [] option.kind = OPT_DNS_SERVERS ->
                         ParseReprOptions(rest, [acc EXCEPT !.dns_servers = Some(sub.value)])
                    [] option.kind = OPT_ORO ->
                         ParseReprOptions(rest, [acc EXCEPT !.request_options = Some(sub.value)])
                    [] OTHER -> ParseReprOptions(rest, acc)

\* Repr::parse on a packet that passed check_len.
Repr_parse(buffer) ==
    ParseReprOptions(parse_options(Drop(buffer, HEADER_LEN)),
        [message_type |-> MessageTypeFrom(buffer[1]),
         transaction_id |-> read_u24(Drop(buffer, 1)),
         client_id |-> None, server_id |-> None, elapsed_time |-> None,
         request_options |-> None, ia_na |-> None, ia_ta |-> None,
         dns_servers |-> None])

\* Packet::new_checked followed by Repr::parse, as process_udp calls them.
ParsePayload(payload) ==
    IF Len(payload) < HEADER_LEN THEN Err ELSE Repr_parse(payload)

(***************************************************************************)
(* Inputs the environment can offer.                                       *)
(***************************************************************************)
\* cx.hardware_addr(): the Ethernet address of the interface.
EthernetAddr == <<2, 0, 0, 0, 0, 1>>
\* cx.rand().rand_uuid()
Uuids == {Bytes(16, 17), Bytes(16, 34)}
\* cx.rand().rand_u32(): a value that fits 24 bits and one that does not.
RandXids == {1, 16777218}
\* Server identifiers (DUIDs): a short one and one longer than MAX_IDENTIFIER_LEN.
ShortDuid == <<0, 1, 170>>
LongDuid == Bytes(MAX_IDENTIFIER_LEN + 1, 187)
\* The identifier of a server the client never latched.
OtherDuid == <<0, 1, 204>>
\* A DNS server.
DnsAddr == Addr(32, 83)

\* ICMPv6 messages offered: Router Advertisements that are managed and carry
\* both options, Router Advertisements that lack one of the three, and any
\* other ICMPv6 message.
PrefixInfos == {[prefix_len |-> 64], [prefix_len |-> 48]}
RouterAdvert(managed, mtu, prefix_info) ==
    [kind |-> "RouterAdvert", managed |-> managed, mtu |-> mtu, prefix_info |-> prefix_info]
Icmpv6Reprs ==
    {[kind |-> "Other"]}
    \cup {RouterAdvert(TRUE, Some(1500), Some(p)) : p \in PrefixInfos}
    \cup {RouterAdvert(FALSE, Some(1500), Some([prefix_len |-> 64])),
          RouterAdvert(TRUE, None, Some([prefix_len |-> 64])),
          RouterAdvert(TRUE, Some(1500), None)}

\* IA_NA options as parsed: a lease with its T1 and T2, an IA_NA without
\* addresses, and one that carries a failure status.
IaAddr(a) == [addr |-> a, preferred_lifetime |-> PREFERRED_LIFETIME, valid_lifetime |-> VALID_LIFETIME]
IaNa(t1, t2, addresses, status_code) ==
    [iaid |-> 4660, t1 |-> t1, t2 |-> t2, addresses |-> addresses, status_code |-> status_code]
LeaseList == <<IaAddr(Addr(32, 17)), IaAddr(Addr(32, 16))>>
GoodIaNas == {Some(IaNa(3, 1, LeaseList, None)), Some(IaNa(1, 3, LeaseList, Some("Success")))}
BadIaNas == {None, Some(IaNa(3, 1, <<>>, None)), Some(IaNa(3, 1, LeaseList, Some("NoAddrsAvail")))}
DnsOption == Some([addresses |-> <<LINK_LOCAL_ALL_ROUTERS, DnsAddr>>])

Repr(message_type, transaction_id, client_id, server_id, ia_na, dns_servers) ==
    [message_type |-> message_type, transaction_id |-> transaction_id,
     client_id |-> client_id, server_id |-> server_id, elapsed_time |-> None,
     request_options |-> None, ia_na |-> ia_na, ia_ta |-> None,
     dns_servers |-> dns_servers]

\* An inbound UDP payload: what Dhcpv6Packet::new_checked and Dhcpv6Repr::parse
\* make of it (None when either fails) and the address it came from.
Inbound(parsed, src_ip) == [parsed |-> parsed, src_ip |-> src_ip]
ServerAddr == Addr(254, 1)
RelayAddr == Addr(254, 2)
ClientIds == {Some(u) : u \in Uuids}

\* Advertise messages: complete ones, and ones with one irregular field.
Advertises ==
    {Inbound(Some(Repr("Advertise", 1, c, s, Some(IaNa(0, 0, LeaseList, None)), None)), ServerAddr) :
        c \in ClientIds, s \in {Some(ShortDuid), Some(LongDuid)}}
    \cup {Inbound(Some(Repr("Advertise", q[1], c, q[2], q[3], None)), ServerAddr) :
        c \in ClientIds,
        q \in {<<2, Some(ShortDuid), Some(IaNa(0, 0, LeaseList, None))>>,
               <<1, None, Some(IaNa(0, 0, LeaseList, None))>>,
               <<1, Some(ShortDuid), None>>,
               <<1, Some(ShortDuid), Some(IaNa(0, 0, <<>>, None))>>}}
    \cup {Inbound(Some(Repr("Advertise", 1, None, Some(ShortDuid),
                            Some(IaNa(0, 0, LeaseList, None)), None)), ServerAddr)}
    \cup {Inbound(Some(Repr("Advertise", 1, c, Some(ShortDuid),
                            Some(IaNa(0, 0, LeaseList, Some("NoAddrsAvail"))), None)), ServerAddr) :
            c \in ClientIds}

\* Confirm messages: complete ones from the server or through a relay, and
\* ones with one irregular field.
Confirms ==
    {Inbound(Some(Repr("Confirm", 1, c, Some(ShortDuid), i, DnsOption)), a) :
        c \in ClientIds, i \in GoodIaNas, a \in {ServerAddr, RelayAddr}}
    \cup {Inbound(Some(Repr("Confirm", q[1], c, q[2], q[3], DnsOption)), ServerAddr) :
        c \in ClientIds,
        q \in {<<2, Some(ShortDuid), Some(IaNa(3, 1, LeaseList, None))>>,
               <<1, None, Some(IaNa(3, 1, LeaseList, None))>>,
               <<1, Some(LongDuid), Some(IaNa(3, 1, LeaseList, None))>>}
              \cup {<<1, Some(ShortDuid), i>> : i \in BadIaNas}}
    \cup {Inbound(Some(Repr("Confirm", 1, None, Some(ShortDuid),
                            Some(IaNa(3, 1, LeaseList, None)), DnsOption)), ServerAddr)}

Declines ==
    {Inbound(Some(Repr("Decline", x, None, s, None, None)), ServerAddr) :
        x \in {1, 2}, s \in {None, Some(ShortDuid), Some(OtherDuid)}}

\* A message type the client does not handle, and a payload that does not parse.
Others ==
    {Inbound(Some(Repr("Reply", 1, Some(Bytes(16, 17)), Some(ShortDuid),
                       Some(IaNa(3, 1, LeaseList, None)), DnsOption)), ServerAddr),
     Inbound(None, ServerAddr)}

Inbounds == Advertises \cup Confirms \cup Declines \cup Others

\* The same kinds of message as bytes on the wire.  An option is its code and
\* its length, both big-endian u16, and its data.
u16_bytes(v) == <<v \div 256, v % 256>>
u32_bytes(v) == <<v \div 16777216, (v \div 65536) % 256, (v \div 256) % 256, v % 256>>
HeaderBytes(mtype, xid) == <<mtype, xid \div 65536, (xid \div 256) % 256, xid % 256>>
OptionBytes(kind, data) == u16_bytes(kind) \o u16_bytes(Len(data)) \o data
IaAddrBytes(a) ==
    OptionBytes(OPT_IA_PD, a \o u32_bytes(PREFERRED_LIFETIME) \o u32_bytes(VALID_LIFETIME))
IaNaBytes(t1, t2, options) ==
    OptionBytes(OPT_IA_NA, u32_bytes(4660) \o u32_bytes(t1) \o u32_bytes(t2) \o options)

\* Well-formed payloads: an Advertise and a Confirm for each client-id, and a
\* Decline.
AdvertiseBytes(client_id) ==
    HeaderBytes(2, 1) \o OptionBytes(OPT_CLIENTID, client_id)
    \o OptionBytes(OPT_SERVERID, ShortDuid) \o IaNaBytes(0, 0, IaAddrBytes(Addr(32, 17)))
ConfirmBytes(client_id) ==
    HeaderBytes(4, 1) \o OptionBytes(OPT_CLIENTID, client_id)
    \o OptionBytes(OPT_SERVERID, ShortDuid) \o IaNaBytes(3, 1, IaAddrBytes(Addr(32, 17)))
    \o OptionBytes(OPT_DNS_SERVERS, DnsAddr)
DeclineBytes == HeaderBytes(9, 1) \o OptionBytes(OPT_SERVERID, ShortDuid)
WellFormedPayloads ==
    {AdvertiseBytes(u) : u \in Uuids} \cup {ConfirmBytes(u) : u \in Uuids} \cup {DeclineBytes}

\* Malformed payloads: shorter than the header; an option whose declared
\* length runs past the end, alone or after the options of an Advertise; an
\* IA_NA, IA_TA or IA address option shorter than its fixed fields; a status
\* code of one byte; an option request of one byte.
ShortPayloads == {<<>>, <<2, 0, 0>>}
TruncatedOptionPayloads ==
    {HeaderBytes(2, 1) \o <<0, OPT_CLIENTID, 0, 16, 17>>}
    \cup {AdvertiseBytes(u) \o <<0, OPT_ELAPSED_TIME, 0, 2, 0>> : u \in Uuids}
ShortIaPayloads ==
    {HeaderBytes(2, 1) \o OptionBytes(OPT_IA_NA, <<>>),
     HeaderBytes(4, 1) \o OptionBytes(OPT_SERVERID, ShortDuid)
        \o OptionBytes(OPT_IA_NA, u32_bytes(4660) \o u32_bytes(3)),
     HeaderBytes(2, 1) \o OptionBytes(OPT_IA_TA, <<0>>),
     HeaderBytes(2, 1) \o OptionBytes(OPT_SERVERID, ShortDuid)
        \o IaNaBytes(0, 0, OptionBytes(OPT_IA_PD, <<32, 0>>))}
ShortStatusPayloads ==
    {HeaderBytes(4, 1) \o OptionBytes(OPT_SERVERID, ShortDuid)
        \o IaNaBytes(3, 1, IaAddrBytes(Addr(32, 17)) \o OptionBytes(OPT_STATUS_CODE, <<0>>))}
ShortOroPayloads == {HeaderBytes(2, 1) \o OptionBytes(OPT_ORO, <<0>>)}
MalformedPayloads ==
    ShortPayloads \cup TruncatedOptionPayloads \cup ShortIaPayloads
    \cup ShortStatusPayloads \cup ShortOroPayloads
Payloads == WellFormedPayloads \cup MalformedPayloads

(***************************************************************************)
(* Emitting (src/wire/dhcpv6.rs).  A writer is the packet buffer, the      *)
(* number of its bytes already passed (the rest is the remaining buffer of *)
(* Dhcpv6OptionWriter), and the outcome so far: "Ok", "Err" for a returned *)
(* Error, "Panic" for an index or a slice outside the remaining buffer.    *)
(* Nothing is written after an Err or a Panic.  A status code is emitted   *)
(* with an empty status message, which is all a parsed status code keeps   *)
(* in this model.                                                          *)
(***************************************************************************)
\* u16::MAX, the longest option data
U16_MAX == 65535
\* The four bytes of option code and option length.
OPTION_HEADER_LEN == 4
\* The bytes of an IA_NA before its options (iaid, t1, t2), of an IA_TA
\* (iaid), of an IA address (address and two lifetimes), of a status code
\* and of one DNS server address.
IA_NA_FIXED_LEN == 12
IA_TA_FIXED_LEN == 4
IA_ADDR_FIXED_LEN == 24
STATUS_CODE_FIXED_LEN == 2
DNS_ADDR_LEN == 16

\* u8::from(MessageType) and u16::from(StatusCode)
MessageTypeInto(m) ==
    CASE m = "Solicit" -> 1 [] m = "Advertise" -> 2 [] m = "Request" -> 3
      [] m = "Confirm" -> 4 [] m = "Renew" -> 5 [] m = "Rebind" -> 6
      [] m = "Reply" -> 7 [] m = "Release" -> 8 [] m = "Decline" -> 9
StatusCodeInto(c) ==
    CASE c = "Success" -> 0 [] c = "UnspecFail" -> 1 [] c = "NoAddrsAvail" -> 2
      [] c = "NoBinding" -> 3 [] c = "NotOnLink" -> 4 [] c = "UseMulticast" -> 5
      [] c = "NoPrefixAvail" -> 6

Dhcpv6OptionWriter_new(buffer, pos) == [tag |-> "Ok", buffer |-> buffer, pos |-> pos]
Remaining(w) == Len(w.buffer) - w.pos

\* buffer with bytes copied in after the first pos bytes
WriteAt(buffer, pos, bytes) ==
    [i \in 1..Len(buffer) |->
        IF pos < i /\ i <= pos + Len(bytes) THEN bytes[i - pos] ELSE buffer[i]]

\* Dhcpv6OptionWriter::emit
Dhcpv6OptionWriter_emit_NoRoomCheck(w, option) ==
    IF w.tag # "Ok" THEN w
    ELSE IF Len(option.data) > U16_MAX THEN [w EXCEPT !.tag = "Err"]
    ELSE [w EXCEPT !.buffer = WriteAt(w.buffer, w.pos,
                                  u16_bytes(option.kind) \o u16_bytes(Len(option.data)) \o option.data),
                   !.pos = w.pos + OPTION_HEADER_LEN + Len(option.data)]
Dhcpv6OptionWriter_emit(w, option) ==
    IF w.tag # "Ok" THEN w
    ELSE IF Len(option.data) > U16_MAX THEN [w EXCEPT !.tag = "Err"]
    ELSE IF Remaining(w) < OPTION_HEADER_LEN + Len(option.data) THEN [w EXCEPT !.tag = "Err"]
    ELSE [w EXCEPT !.buffer = WriteAt(w.buffer, w.pos,
                                  u16_bytes(option.kind) \o u16_bytes(Len(option.data)) \o option.data),
                   !.pos = w.pos + OPTION_HEADER_LEN + Len(option.data)]

\* buffer[0..n] written and split off, as the nested emits do it: it panics
\* when fewer than n bytes remain.
Put(w, bytes) ==
    IF w.tag # "Ok" THEN w
    ELSE IF Remaining(w) < Len(bytes) THEN [w EXCEPT !.tag = "Panic"]
    ELSE [w EXCEPT !.buffer = WriteAt(w.buffer, w.pos, bytes), !.pos = w.pos + Len(bytes)]

\* The additional options of a Repr: the empty slice where the record has none.
AdditionalOptions(repr) ==
    IF "additional_options" \in DOMAIN repr THEN repr.additional_options ELSE <<>>

\* ReprStatusCode::data_len and ::emit
ReprStatusCode_data_len(status_code) == STATUS_CODE_FIXED_LEN
ReprStatusCode_emit(w, status_code) ==
    Put(Put(Put(Put(w, u16_bytes(OPT_STATUS_CODE)),
                u16_bytes(ReprStatusCode_data_len(status_code) % (U16_MAX + 1))),
            u16_bytes(StatusCodeInto(status_code))),
        <<>>)

\* ReprIaAddr::data_len and ::emit
ReprIaAddr_data_len(a) == IA_ADDR_FIXED_LEN
ReprIaAddr_emit(w, a) ==
    Put(Put(Put(Put(Put(w, u16_bytes(OPT_IA_PD)),
                    u16_bytes(ReprIaAddr_data_len(a) % (U16_MAX + 1))),
                a.addr),
            u32_bytes(a.preferred_lifetime)),
        u32_bytes(a.valid_lifetime))

\* The addresses and the status code of an IA_NA or an IA_TA.
RECURSIVE IaOptionsLen(_)
IaOptionsLen(addresses) ==
    IF addresses = <<>> THEN 0
    ELSE OPTION_HEADER_LEN + ReprIaAddr_data_len(Head(addresses)) + IaOptionsLen(Tail(addresses))
StatusLen(status_code) ==
    IF IsSome(status_code) THEN OPTION_HEADER_LEN + ReprStatusCode_data_len(Unwrap(status_code)) ELSE 0
RECURSIVE EmitAddresses(_, _)
EmitAddresses(w, addresses) ==
    IF addresses = <<>> THEN w
    ELSE EmitAddresses(ReprIaAddr_emit(w, Head(addresses)), Tail(addresses))
EmitStatus(w, status_code) ==
    IF IsSome(status_code) THEN ReprStatusCode_emit(w, Unwrap(status_code)) ELSE w

\* ReprIaNa::data_len and ::emit
ReprIaNa_data_len(ia) == IA_NA_FIXED_LEN + IaOptionsLen(ia.addresses) + StatusLen(ia.status_code)
ReprIaNa_emit(w, ia) ==
    LET head == Put(Put(Put(Put(Put(w, u16_bytes(OPT_IA_NA)),
                                u16_bytes(ReprIaNa_data_len(ia) % (U16_MAX + 1))),
                            u32_bytes(ia.iaid)),
                        u32_bytes(ia.t1)),
                    u32_bytes(ia.t2))
    IN  EmitStatus(EmitAddresses(head, ia.addresses), ia.status_code)

\* ReprIaTa::data_len and ::emit
ReprIaTa_data_len(ia) == IA_TA_FIXED_LEN + IaOptionsLen(ia.addresses) + StatusLen(ia.status_code)
ReprIaTa_emit(w, ia) ==
    LET head == Put(Put(Put(w, u16_bytes(OPT_IA_TA)),
                        u16_bytes(ReprIaTa_data_len(ia) % (U16_MAX + 1))),
                    u32_bytes(ia.iaid))
    IN  EmitStatus(EmitAddresses(head, ia.addresses), ia.status_code)

\* ReprDnsServers::data_len and ::emit
ReprDnsServers_data_len(dns) == DNS_ADDR_LEN * Len(dns.addresses)
RECURSIVE PutAll(_, _)
PutAll(w, chunks) ==
    IF chunks = <<>> THEN w ELSE PutAll(Put(w, Head(chunks)), Tail(chunks))
ReprDnsServers_emit(w, dns) ==
    PutAll(Put(Put(w, u16_bytes(OPT_DNS_SERVERS)),
               u16_bytes(ReprDnsServers_data_len(dns) % (U16_MAX + 1))),
           dns.addresses)

\* Repr::buffer_len
RECURSIVE OptionsLen(_)
OptionsLen(options) ==
    IF options = <<>> THEN 0
    ELSE OPTION_HEADER_LEN + Len(Head(options).data) + OptionsLen(Tail(options))
buffer_len(repr) ==
    HEADER_LEN
    + (IF IsSome(repr.client_id) THEN OPTION_HEADER_LEN + Len(Unwrap(repr.client_id)) ELSE 0)
    + (IF IsSome(repr.server_id) THEN OPTION_HEADER_LEN + Len(Unwrap(repr.server_id)) ELSE 0)
    + (IF IsSome(repr.elapsed_time) THEN OPTION_HEADER_LEN + 2 ELSE 0)
    + (IF IsSome(repr.ia_na) THEN OPTION_HEADER_LEN + ReprIaNa_data_len(Unwrap(repr.ia_na)) ELSE 0)
    + (IF IsSome(repr.ia_ta) THEN OPTION_HEADER_LEN + ReprIaTa_data_len(Unwrap(repr.ia_ta)) ELSE 0)
    + (IF IsSome(repr.dns_servers)
       THEN OPTION_HEADER_LEN + ReprDnsServers_data_len(Unwrap(repr.dns_servers)) ELSE 0)
    + (IF IsSome(repr.request_options)
       THEN OPTION_HEADER_LEN + 2 * Len(Unwrap(repr.request_options)) ELSE 0)
    + OptionsLen(AdditionalOptions(repr))

\* The request options as Repr::emit lays them out: two bytes for each code.
RECURSIVE RequestOptionBytes(_)
RequestOptionBytes(request_options) ==
    IF request_options = <<>> THEN <<>>
    ELSE u16_bytes(Head(request_options)) \o RequestOptionBytes(Tail(request_options))

RECURSIVE EmitOptions(_, _)
EmitOptions(w, options) ==
    IF options = <<>> THEN w
    ELSE EmitOptions(Dhcpv6OptionWriter_emit(w, Head(options)), Tail(options))

\* Packet::set_message_type and Packet::set_transaction_id index the header
\* unchecked, and Packet::options_mut slices the buffer after it.
EmitHeader(repr, buffer) ==
    IF Len(buffer) < 1 THEN [tag |-> "Panic", buffer |-> buffer, pos |-> 0]
    ELSE IF Len(buffer) < HEADER_LEN
    THEN [tag |-> "Panic", buffer |-> WriteAt(buffer, 0, <<MessageTypeInto(repr.message_type)>>),
          pos |-> 0]
    ELSE Dhcpv6OptionWriter_new(
             WriteAt(buffer, 0, HeaderBytes(MessageTypeInto(repr.message_type),
                                            set_transaction_id(repr.transaction_id))),
             HEADER_LEN)

\* Repr::emit into a packet over buffer: the outcome, the buffer as the call
\* leaves it and the number of bytes of it that were passed.
Repr_emit(repr, buffer) ==
    LET w0 == EmitHeader(repr, buffer)
        w1 == IF IsSome(repr.client_id)
              THEN Dhcpv6OptionWriter_emit(w0, [kind |-> OPT_CLIENTID, data |-> Unwrap(repr.client_id)])
              ELSE w0
        w2 == IF IsSome(repr.server_id)
              THEN Dhcpv6OptionWriter_emit(w1, [kind |-> OPT_SERVERID, data |-> Unwrap(repr.server_id)])
              ELSE w1
        w3 == IF IsSome(repr.elapsed_time)
              THEN Dhcpv6OptionWriter_emit(w2, [kind |-> OPT_ELAPSED_TIME,
                                                data |-> u16_bytes(Unwrap(repr.elapsed_time))])
              ELSE w2
        w4 == IF IsSome(repr.ia_na) THEN ReprIaNa_emit(w3, Unwrap(repr.ia_na)) ELSE w3
        w5 == IF IsSome(repr.ia_ta) THEN ReprIaTa_emit(w4, Unwrap(repr.ia_ta)) ELSE w4
        w6 == IF IsSome(repr.dns_servers) THEN ReprDnsServers_emit(w5, Unwrap(repr.dns_servers)) ELSE w5
        w7 == IF IsSome(repr.request_options)
              THEN Dhcpv6OptionWriter_emit(w6, [kind |-> OPT_ORO,
                                                data |-> RequestOptionBytes(Unwrap(repr.request_options))])
              ELSE w6
    IN  EmitOptions(w7, AdditionalOptions(repr))

(***************************************************************************)
(* Configuration knobs.                                                    *)
(***************************************************************************)
DefaultRetryConfig ==
    [initial_request_timeout |-> from_secs(2), request_retries |-> 5,
     min_renew_timeout |-> from_secs(60)]
FastRetryConfig ==
    [initial_request_timeout |-> from_secs(1), request_retries |-> 2,
     min_renew_timeout |-> from_secs(1)]
RetryConfigs == {DefaultRetryConfig, FastRetryConfig}
MaxLeaseDurations == {None, Some(from_secs(2))}

VARIABLES
    state,                  \* ClientState
    config_changed,
    transaction_id,
    max_lease_duration,
    retry_config,
    ignore_naks,
    receive_packet_buffer,
    now,                    \* cx.now()
    last_dhcp_xid,          \* xid on the wire of the last DHCPv6 message sent
    aborted,                \* a call into the socket panicked
    wire_buffer,            \* the bytes of a buffer handed to the codec
    wire_pos,               \* bytes of it an option writer has passed
    wire_call,              \* the last call that wrote to it: "None" before any
    wire_result,            \* outcome of the last emit: "None" before any
    wire_parsed,            \* result of Repr::parse on the buffer, if called
    waker,                  \* WakerRegistration::waker, the chain as a sequence
    clear_on_wake,
    woken,                  \* the wakers the last call woke, in order
    last_call,              \* the last call on the registration and its waker
    previous,               \* the chain as that call found it
    dropped,                \* the WakerRegistration was dropped
    sockets,                \* SocketSet::sockets, the slots in order
    storage,                \* its ManagedSlice: "Owned" or "Borrowed"
    returned,               \* the last call on the set and what it returned
    t0,                     \* the instant the run was started at
    dispatches,             \* the dispatches that transmitted since t0
    variants                \* the state variants since the last inbound delivery

\* What the socket's packet handling never touches: the codec's buffer, the
\* waker registration, which holds no waker unless one is registered, and
\* the socket set of the interface.
wire == <<wire_buffer, wire_pos, wire_call, wire_result, wire_parsed>>
registration == <<waker, clear_on_wake, woken, last_call, previous, dropped>>
set == <<sockets, storage, returned>>
\* What an observer of a run notes down; no code reads or writes it.
observer == <<t0, dispatches, variants>>
collaborators == <<wire, registration, set, observer>>

vars == <<state, config_changed, transaction_id, max_lease_duration, retry_config,
          ignore_naks, receive_packet_buffer, now, last_dhcp_xid, aborted, collaborators>>

\* The fields of the socket.
socket == <<state, config_changed, transaction_id, max_lease_duration, retry_config,
            ignore_naks, receive_packet_buffer, now, last_dhcp_xid, aborted>>

knobs == <<max_lease_duration, retry_config, ignore_naks>>

RouterSolicitState(retry_at, retry) ==
    [tag |-> "RouterSolicit", retry_at |-> retry_at, retry |-> retry]

\* Socket::new
SocketNew ==
    /\ state = RouterSolicitState(from_millis(0), 0)
    /\ config_changed = TRUE
    /\ transaction_id = 1
    /\ max_lease_duration = None
    /\ retry_config = DefaultRetryConfig
    /\ ignore_naks = FALSE
    /\ receive_packet_buffer = None
    /\ now = 0
    /\ last_dhcp_xid = None
    /\ aborted = FALSE

\* No buffer has been handed to the codec.
WireIdle ==
    /\ wire_buffer = <<>>
    /\ wire_pos = 0
    /\ wire_call = "None"
    /\ wire_result = "None"
    /\ wire_parsed = None

\* WakerRegistration::new
WakerRegistration_new ==
    /\ waker = None
    /\ clear_on_wake = TRUE
    /\ woken = <<>>
    /\ last_call = <<"new">>
    /\ previous = None
    /\ dropped = FALSE

\* SocketSet::new over an empty Vec
SocketSet_new ==
    /\ sockets = <<>>
    /\ storage = "Owned"
    /\ returned = [op |-> "new"]

\* The observer starts with the socket.
ObserverNew ==
    /\ t0 = 0
    /\ dispatches = 0
    /\ variants = <<"RouterSolicit">>

\* The socket as constructed; nothing else is in use.
Init == SocketNew /\ WireIdle /\ WakerRegistration_new /\ SocketSet_new /\ ObserverNew

(***************************************************************************)
(* Helpers of the state machine.                                           *)
(***************************************************************************)
\* The backoff without the cap on the shift.
Backoff_Uncapped(initial_request_timeout, retry) ==
    initial_request_timeout * 2 ^ (retry \div 2)

\* state.retry.min(16) as u32 / 2, applied as a left shift to the timeout.
Backoff(initial_request_timeout, retry) ==
    initial_request_timeout * 2 ^ (Min(retry, BACKOFF_RETRY_CAP) \div 2)

\* ClientState::DhcpSolicit built by process_icmpv6.
DhcpSolicitState(client_id, mtu, prefix_info) ==
    [tag |-> "DhcpSolicit", client_id |-> client_id, retry_at |-> from_millis(0),
     retry |-> 0, mtu |-> mtu, prefix_info |-> prefix_info]

\* ClientState::DhcpRequesting built by process_udp on an Advertise.
DhcpRequestState(st, t, src_ip, server_id, ia_na) ==
    [tag |-> "DhcpRequesting",
     client_id |-> VecFromSlice(st.client_id, MAX_IDENTIFIER_LEN),
     retry_at |-> t, retry |-> 0, iaid |-> ia_na.iaid,
     server |-> [address |-> src_ip,
                 identifier |-> VecFromSlice(server_id, MAX_IDENTIFIER_LEN)],
     requested_ip |-> ia_na.addresses[1].addr,
     mtu |-> st.mtu, prefix_info |-> st.prefix_info]

\* A DhcpRenewing state that forgets the prefix of the Router Advertisement.
DhcpRenewState_PrefixForgotten(st, ack) ==
    [tag |-> "DhcpRenewing", config |-> ack.config,
     client_id |-> VecFromSlice(st.client_id, MAX_IDENTIFIER_LEN),
     iaid |-> st.iaid, renew_at |-> ack.renew_at, expires_at |-> ack.expires_at,
     mtu |-> st.mtu, prefix_info |-> [prefix_len |-> 64]]

\* ClientState::DhcpRenewing built by process_udp on a Confirm.
DhcpRenewState(st, ack) ==
    [tag |-> "DhcpRenewing", config |-> ack.config,
     client_id |-> VecFromSlice(st.client_id, MAX_IDENTIFIER_LEN),
     iaid |-> st.iaid, renew_at |-> ack.renew_at, expires_at |-> ack.expires_at,
     mtu |-> st.mtu, prefix_info |-> st.prefix_info]

\* The DNS servers parse_ack keeps: the unicast ones, as many as fit the vector.
AckDnsServers(dns_servers) ==
    LET all == IF IsSome(dns_servers) THEN Unwrap(dns_servers).addresses ELSE <<>>
        uni == SelectSeq(all, is_unicast)
    IN  SubSeq(uni, 1, Min(Len(uni), DHCP_MAX_DNS_SERVER_COUNT))

\* A lease duration that ignores max_lease_duration.
LeaseDuration_Uncapped(t1, max_lease) == from_secs(t1)

\* lease_duration = T1 seconds, capped by max_lease_duration when that is set.
LeaseDuration(t1, max_lease) ==
    IF IsSome(max_lease) THEN Min(from_secs(t1), Unwrap(max_lease)) ELSE from_secs(t1)

\* renew_duration = T2 seconds.
RenewDuration(t2) == from_secs(t2)

\* parse_ack with the router taken from the latched server instead of the
\* packet's source address.
parse_ack_RouterFromServer(t, src_ip, dhcp_repr, max_lease, server, ia_na, prefix_info) ==
    IF ia_na.addresses = <<>> THEN None
    ELSE IF (IF IsSome(ia_na.status_code) THEN Unwrap(ia_na.status_code) ELSE "Success") # "Success"
    THEN None
    ELSE Some([config |-> [server |-> server,
                           address |-> [address |-> ia_na.addresses[1].addr,
                                        prefix_len |-> prefix_info.prefix_len],
                           router |-> Some(server.address),
                           dns_servers |-> AckDnsServers(dhcp_repr.dns_servers),
                           packet |-> None],
               renew_at |-> t + RenewDuration(ia_na.t2),
               expires_at |-> t + LeaseDuration(ia_na.t1, max_lease)])

\* Socket::parse_ack: None, or Some of the config and the two timers.
parse_ack(t, src_ip, dhcp_repr, max_lease, server, ia_na, prefix_info) ==
    IF ia_na.addresses = <<>> THEN None
    ELSE IF (IF IsSome(ia_na.status_code) THEN Unwrap(ia_na.status_code) ELSE "Success") # "Success"
    THEN None
    ELSE Some([config |-> [server |-> server,
                           address |-> [address |-> ia_na.addresses[1].addr,
                                        prefix_len |-> prefix_info.prefix_len],
                           router |-> Some(src_ip),
                           dns_servers |-> AckDnsServers(dhcp_repr.dns_servers),
                           packet |-> None],
               renew_at |-> t + RenewDuration(ia_na.t2),
               expires_at |-> t + LeaseDuration(ia_na.t1, max_lease)])

\* A renewal that raises the flag for a different config only.
ConfirmChangesConfig_ConfigOnly(stored, config, buffer) == stored # config

\* state.config != config || self.receive_packet_buffer.is_some()
ConfirmChangesConfig(stored, config, buffer) == stored # config \/ IsSome(buffer)

\* reset() raising the flag from every state.
ResetConfigChanged_Always(st, cc) == TRUE

\* Socket::reset: the state and the config_changed flag after the call.
ResetConfigChanged(st, cc) == IF st.tag = "DhcpRenewing" THEN TRUE ELSE cc
\* reset() that schedules the first Router Solicitation a second late.
ResetState_LateRetry == RouterSolicitState(from_secs(1), 0)

ResetState == RouterSolicitState(from_millis(0), 0)

\* s == state.client_id, as process_udp compares an identifier option.
IdMatches(opt, id) == IsSome(opt) /\ Len(Unwrap(opt)) = Len(id) /\ Unwrap(opt) = id

(***************************************************************************)
(* The receive-packet buffer.  A cell records the kind of payload that     *)
(* wrote it last ("zero" for a cell never written).                        *)
(***************************************************************************)
BufCap == 4
FreshBuffer == [i \in 1..BufCap |-> "zero"]
PayloadBytes(kind, len) == [i \in 1..len |-> kind]

\* buffer.get_mut(..payload.len()) and copy_from_slice: the payload replaces a
\* prefix of the buffer when it fits, and nothing is copied when it does not.
CopyIntoBuffer(buffer, payload) ==
    IF buffer = None THEN None
    ELSE IF Len(payload) <= Len(Unwrap(buffer))
    THEN Some([i \in 1..Len(Unwrap(buffer)) |->
                 IF i <= Len(payload) THEN payload[i] ELSE Unwrap(buffer)[i]])
    ELSE buffer

\* Lengths of the payloads offered: one that fits the buffer, one that does not.
\* Without a registered buffer the length is not looked at.
DhcpPayloadLens == IF receive_packet_buffer = None THEN {BufCap} ELSE {BufCap, BufCap + 1}
IcmpPayloadLens == IF receive_packet_buffer = None THEN {1} ELSE {1, BufCap + 1}

(***************************************************************************)
(* Socket::process_icmpv6                                                  *)
(***************************************************************************)
\* process_icmpv6 without the test of the MANAGED flag.
ProcessIcmpv6State_ManagedNotTested(st, repr, uuid) ==
    IF st.tag = "RouterSolicit" /\ repr.kind = "RouterAdvert"
    THEN IF repr.mtu = None THEN st
         ELSE IF IsSome(repr.prefix_info)
              THEN DhcpSolicitState(VecFromSlice(uuid, MAX_IDENTIFIER_LEN),
                                    Unwrap(repr.mtu), Unwrap(repr.prefix_info))
              ELSE st
    ELSE st

ProcessIcmpv6State(st, repr, uuid) ==
    IF st.tag = "RouterSolicit" /\ repr.kind = "RouterAdvert"
    THEN IF repr.managed
         THEN IF repr.mtu = None THEN st
              ELSE IF IsSome(repr.prefix_info)
                   THEN DhcpSolicitState(VecFromSlice(uuid, MAX_IDENTIFIER_LEN),
                                         Unwrap(repr.mtu), Unwrap(repr.prefix_info))
                   ELSE st
         ELSE st
    ELSE st

\* What one call leaves behind: the state, the flag and the receive buffer.
ProcessIcmpv6Result(repr, len, uuid) ==
    [state |-> ProcessIcmpv6State(state, repr, uuid),
     config_changed |-> config_changed,
     receive_packet_buffer |->
        CopyIntoBuffer(receive_packet_buffer, PayloadBytes("icmp", len))]

process_icmpv6(repr, len, uuid) ==
    LET r == ProcessIcmpv6Result(repr, len, uuid)
    IN  /\ receive_packet_buffer' = r.receive_packet_buffer
        /\ state' = r.state
        /\ config_changed' = r.config_changed
        /\ UNCHANGED <<collaborators, transaction_id, knobs, now, last_dhcp_xid, aborted>>

(***************************************************************************)
(* Socket::process_udp.  parsed is None when Dhcpv6Packet::new_checked or  *)
(* Dhcpv6Repr::parse fails, and Some of the Repr otherwise.                *)
(***************************************************************************)
\* The two Decline arms of the match: reset() unless NAKs are ignored.
OnDecline_NaksNeverIgnored(st, cc) ==
    [state |-> ResetState, config_changed |-> ResetConfigChanged(st, cc)]

OnDecline(st, cc) ==
    IF ~ignore_naks
    THEN [state |-> ResetState, config_changed |-> ResetConfigChanged(st, cc)]
    ELSE [state |-> st, config_changed |-> cc]

\* The match on (state, message_type): the state and config_changed after it.
ProcessUdpMatch(st, cc, buffer, repr, src_ip, t) ==
    LET keep == [state |-> st, config_changed |-> cc]
    IN
    CASE st.tag = "RouterSolicit" -> keep
      [] st.tag = "DhcpSolicit" /\ repr.message_type = "Advertise" ->
            IF repr.ia_na = None THEN keep
            ELSE IF Unwrap(repr.ia_na).addresses = <<>> THEN keep
            ELSE IF ~IdMatches(repr.client_id, st.client_id) THEN keep
            ELSE IF repr.server_id = None THEN keep
            ELSE [state |-> DhcpRequestState(st, t, src_ip, Unwrap(repr.server_id),
                                             Unwrap(repr.ia_na)),
                  config_changed |-> cc]
      [] st.tag = "DhcpRequesting" /\ repr.message_type = "Confirm" ->
            IF repr.ia_na = None THEN keep
            ELSE IF ~IdMatches(repr.client_id, st.client_id) THEN keep
            ELSE IF ~IdMatches(repr.server_id, st.server.identifier) THEN keep
            ELSE LET ack == parse_ack(t, src_ip, repr, max_lease_duration, st.server,
                                      Unwrap(repr.ia_na), st.prefix_info)
                 IN  IF ack = None THEN keep
                     ELSE [state |-> DhcpRenewState(st, Unwrap(ack)),
                           config_changed |-> TRUE]
      [] st.tag = "DhcpRequesting" /\ repr.message_type = "Decline" -> OnDecline(st, cc)
      [] st.tag = "DhcpRenewing" /\ repr.message_type = "Confirm" ->
            IF repr.ia_na = None THEN keep
            ELSE IF ~IdMatches(repr.client_id, st.client_id) THEN keep
            ELSE IF ~IdMatches(repr.server_id, st.config.server.identifier) THEN keep
            ELSE LET ack == parse_ack(t, src_ip, repr, max_lease_duration, st.config.server,
                                      Unwrap(repr.ia_na), st.prefix_info)
                 IN  IF ack = None THEN keep
                     ELSE LET a == Unwrap(ack)
                              changed == ConfirmChangesConfig(st.config, a.config, buffer)
                          IN  [state |-> [st EXCEPT !.renew_at = a.renew_at,
                                                    !.expires_at = a.expires_at,
                                                    !.config = a.config],
                               config_changed |-> IF changed THEN TRUE ELSE cc]
      [] st.tag = "DhcpRenewing" /\ repr.message_type = "Decline" -> OnDecline(st, cc)
      [] OTHER -> keep

\* Whether process_udp gets as far as the match on the state.
PassesChecks(parsed) ==
    /\ IsSome(parsed)
    /\ Unwrap(parsed).transaction_id = transaction_id
    /\ IsSome(Unwrap(parsed).server_id)

\* What one call leaves behind: the state, the flag and the receive buffer.
ProcessUdpResult(parsed, len, src_ip) ==
    IF PassesChecks(parsed)
    THEN LET buf == CopyIntoBuffer(receive_packet_buffer, PayloadBytes("dhcp", len))
             r == ProcessUdpMatch(state, config_changed, buf, Unwrap(parsed), src_ip, now)
         IN  [state |-> r.state, config_changed |-> r.config_changed,
              receive_packet_buffer |-> buf]
    ELSE [state |-> state, config_changed |-> config_changed,
          receive_packet_buffer |-> receive_packet_buffer]

process_udp(parsed, len, src_ip) ==
    LET r == ProcessUdpResult(parsed, len, src_ip)
    IN  /\ receive_packet_buffer' = r.receive_packet_buffer
        /\ state' = r.state
        /\ config_changed' = r.config_changed
        /\ UNCHANGED <<collaborators, transaction_id, knobs, now, last_dhcp_xid, aborted>>

\* process_udp on the bytes of a payload: the panic of a parser aborts the
\* call before the socket is touched.
ProcessUdpPayloadResult(payload, src_ip) ==
    LET p == ParsePayload(payload)
        r == ProcessUdpResult(IF p.tag = "Ok" THEN Some(p.value) ELSE None,
                              Len(payload), src_ip)
    IN  IF p.tag = "Panic"
        THEN [aborted |-> TRUE, state |-> state, config_changed |-> config_changed,
              receive_packet_buffer |-> receive_packet_buffer]
        ELSE [aborted |-> FALSE, state |-> r.state, config_changed |-> r.config_changed,
              receive_packet_buffer |-> r.receive_packet_buffer]

process_udp_payload(payload, src_ip) ==
    LET r == ProcessUdpPayloadResult(payload, src_ip)
    IN  /\ aborted' = r.aborted
        /\ receive_packet_buffer' = r.receive_packet_buffer
        /\ state' = r.state
        /\ config_changed' = r.config_changed
        /\ UNCHANGED <<collaborators, transaction_id, knobs, now, last_dhcp_xid>>

(***************************************************************************)
(* Socket::dispatch.  next_transaction_id is what random_transaction_id    *)
(* returned; emit_ok is the result of the emit callback, if it is called.  *)
(***************************************************************************)
\* The Solicit representation every dispatch starts from.
SolicitRepr(next_transaction_id) ==
    [message_type |-> "Solicit", transaction_id |-> next_transaction_id,
     client_id |-> Some(EthernetAddr), server_id |-> None, elapsed_time |-> None,
     request_options |-> Some(<<OPT_DNS_SERVERS>>), ia_na |-> None, ia_ta |-> None,
     dns_servers |-> None]

\* The Request representation: the latched server and the requested address.
RequestRepr(next_transaction_id, server_identifier, iaid, addr) ==
    [SolicitRepr(next_transaction_id) EXCEPT
        !.message_type = "Request",
        !.server_id = Some(server_identifier),
        !.ia_na = Some([iaid |-> iaid, t1 |-> 0, t2 |-> 0,
                        addresses |-> <<IaAddr(addr)>>, status_code |-> None])]

\* The representation dispatch sends in DhcpRenewing.
RenewRepr(next_transaction_id, server_identifier, iaid, addr) ==
    [SolicitRepr(next_transaction_id) EXCEPT
        !.message_type = "Request",
        !.server_id = Some(server_identifier),
        !.ia_na = Some([iaid |-> iaid, t1 |-> 0, t2 |-> 0,
                        addresses |-> <<IaAddr(addr)>>, status_code |-> None])]

EmitIcmp == [kind |-> "Icmp", src_addr |-> UNSPECIFIED, dst_addr |-> LINK_LOCAL_ALL_ROUTERS,
             repr |-> [kind |-> "RouterSolicit", lladdr |-> Some(EthernetAddr)]]
EmitDhcp(src_addr, dst_addr, repr) ==
    [kind |-> "Dhcp", src_addr |-> src_addr, dst_addr |-> dst_addr, repr |-> repr]

\* The renew timer after a Renew was sent at time t.
NextRenewAt(t, expires_at, min_renew_timeout) ==
    t + Max(min_renew_timeout, (expires_at - t) \div 2)

\* Outcomes of dispatch: nothing was due, the state was reset, the callback
\* failed, or the packet was sent and the state advanced.
DispatchIdle(st, cc) ==
    [state |-> st, config_changed |-> cc, transaction_id |-> transaction_id,
     emit |-> None, result |-> "Ok"]
\* The reset of dispatch without the call of config_changed().
DispatchReset_FlagNotRaised(st, cc) ==
    [state |-> ResetState, config_changed |-> cc,
     transaction_id |-> transaction_id, emit |-> None, result |-> "Ok"]

DispatchReset(st, cc) ==
    [state |-> ResetState, config_changed |-> ResetConfigChanged(st, cc),
     transaction_id |-> transaction_id, emit |-> None, result |-> "Ok"]
DispatchFailed(st, cc, pkt) ==
    [state |-> st, config_changed |-> cc, transaction_id |-> transaction_id,
     emit |-> Some(pkt), result |-> "Err"]
\* A transmit that does not store the transaction id it sent.
DispatchSent_XidNotStored(st, cc, pkt, next_transaction_id) ==
    [state |-> st, config_changed |-> cc, transaction_id |-> transaction_id,
     emit |-> Some(pkt), result |-> "Ok"]

DispatchSent(st, cc, pkt, next_transaction_id) ==
    [state |-> st, config_changed |-> cc, transaction_id |-> next_transaction_id,
     emit |-> Some(pkt), result |-> "Ok"]

\* A Router Solicitation after which the client solicits a lease at once.
AfterTransmit_WithoutAdvert(st, t) ==
    IF st.tag = "RouterSolicit"
    THEN DhcpSolicitState(<<>>, 1500, [prefix_len |-> 64])
    ELSE [st EXCEPT !.retry_at = t + Backoff(retry_config.initial_request_timeout, st.retry),
                    !.retry = (st.retry + 1) % (U16_MAX + 1)]

\* The retry timer and counter after a transmit at time t.  retry is a u16:
\* state.retry += 1 wraps to 0 at 65535 where overflow is not checked.
AfterTransmit(st, t) ==
    [st EXCEPT !.retry_at = t + Backoff(retry_config.initial_request_timeout, st.retry),
               !.retry = (st.retry + 1) % (U16_MAX + 1)]

\* A client that never gives up on its Request.
RetriesExceeded_Never(st) == FALSE

\* state.retry >= self.retry_config.request_retries
RetriesExceeded(st) == st.retry >= retry_config.request_retries

DispatchResult(st, cc, next_transaction_id, emit_ok, t) ==
    CASE st.tag = "RouterSolicit" ->
            IF t < st.retry_at THEN DispatchIdle(st, cc)
            ELSE IF ~emit_ok THEN DispatchFailed(st, cc, EmitIcmp)
            ELSE DispatchSent(AfterTransmit(st, t), cc, EmitIcmp, next_transaction_id)
      [] st.tag = "DhcpSolicit" ->
            LET pkt == EmitDhcp(UNSPECIFIED, LINK_LOCAL_ALL_ROUTERS,
                                SolicitRepr(next_transaction_id))
            IN  IF t < st.retry_at THEN DispatchIdle(st, cc)
                ELSE IF ~emit_ok THEN DispatchFailed(st, cc, pkt)
                ELSE DispatchSent(AfterTransmit(st, t), cc, pkt, next_transaction_id)
      [] st.tag = "DhcpRequesting" ->
            LET pkt == EmitDhcp(UNSPECIFIED, LINK_LOCAL_ALL_ROUTERS,
                                RequestRepr(next_transaction_id, st.server.identifier,
                                            st.iaid, st.requested_ip))
            IN  IF t < st.retry_at THEN DispatchIdle(st, cc)
                ELSE IF RetriesExceeded(st) THEN DispatchReset(st, cc)
                ELSE IF ~emit_ok THEN DispatchFailed(st, cc, pkt)
                ELSE DispatchSent(AfterTransmit(st, t), cc, pkt, next_transaction_id)
      [] st.tag = "DhcpRenewing" ->
            LET pkt == EmitDhcp(st.config.address.address, st.config.server.address,
                                RenewRepr(next_transaction_id, st.config.server.identifier,
                                          st.iaid, st.config.address.address))
            IN  IF st.expires_at <= t THEN DispatchReset(st, cc)
                ELSE IF t < st.renew_at THEN DispatchIdle(st, cc)
                ELSE IF ~emit_ok THEN DispatchFailed(st, cc, pkt)
                ELSE DispatchSent(
                        [st EXCEPT !.renew_at = NextRenewAt(t, st.expires_at,
                                                            retry_config.min_renew_timeout)],
                        cc, pkt, next_transaction_id)

\* Whether a dispatch put a DHCPv6 message on the wire.
SentDhcp(r) == r.result = "Ok" /\ IsSome(r.emit) /\ Unwrap(r.emit).kind = "Dhcp"

\* The transaction id the message carries on the wire: Repr::emit writes it
\* with Packet::set_transaction_id.
WireXid(pkt) == set_transaction_id(pkt.repr.transaction_id)

dispatch(next_transaction_id, emit_ok) ==
    LET r == DispatchResult(state, config_changed, next_transaction_id, emit_ok, now)
    IN  /\ state' = r.state
        /\ config_changed' = r.config_changed
        /\ transaction_id' = r.transaction_id
        /\ last_dhcp_xid' = IF SentDhcp(r) THEN Some(WireXid(Unwrap(r.emit))) ELSE last_dhcp_xid
        /\ UNCHANGED <<collaborators, knobs, receive_packet_buffer, now, aborted>>

(***************************************************************************)
(* Socket::poll_at, Socket::reset, Socket::poll                            *)
(***************************************************************************)
\* poll_at that looks at the renew timer only.
poll_at_RenewOnly(st) ==
    IF st.tag = "DhcpRenewing" THEN st.renew_at ELSE st.retry_at

\* Socket::poll_at takes &self: it reads the state and returns an instant.
poll_at(st) ==
    IF st.tag = "DhcpRenewing" THEN Min(st.renew_at, st.expires_at) ELSE st.retry_at

reset ==
    /\ state' = ResetState
    /\ config_changed' = ResetConfigChanged(state, config_changed)
    /\ UNCHANGED <<collaborators, transaction_id, knobs, receive_packet_buffer, now, last_dhcp_xid, aborted>>

\* The value poll() returns: None, Some(Deconfigured) or Some(Configured(config)).
PollEvent(st, cc, buffer) ==
    IF ~cc THEN None
    ELSE IF st.tag = "DhcpRenewing"
    THEN Some([kind |-> "Configured",
               config |-> [st.config EXCEPT !.packet = buffer]])
    ELSE Some([kind |-> "Deconfigured"])

\* poll() that returns the event and leaves the flag as it was.
PollResult_FlagKept(st, cc, buffer) ==
    [event |-> PollEvent(st, cc, buffer), config_changed |-> cc]

\* poll(): the event it returns and the flag it leaves, cleared on both
\* branches that return an event.
PollResult(st, cc, buffer) ==
    [event |-> PollEvent(st, cc, buffer),
     config_changed |-> IF ~cc THEN cc ELSE FALSE]

poll ==
    /\ config_changed' = PollResult(state, config_changed, receive_packet_buffer).config_changed
    /\ UNCHANGED <<collaborators, state, transaction_id, knobs, receive_packet_buffer, now, last_dhcp_xid, aborted>>

(***************************************************************************)
(* Configuration setters.                                                  *)
(***************************************************************************)
set_retry_config(config) ==
    /\ retry_config' = config
    /\ UNCHANGED <<collaborators, state, config_changed, transaction_id, max_lease_duration, ignore_naks,
                   receive_packet_buffer, now, last_dhcp_xid, aborted>>

set_max_lease_duration(d) ==
    /\ max_lease_duration' = d
    /\ UNCHANGED <<collaborators, state, config_changed, transaction_id, retry_config, ignore_naks,
                   receive_packet_buffer, now, last_dhcp_xid, aborted>>

set_ignore_naks(b) ==
    /\ ignore_naks' = b
    /\ UNCHANGED <<collaborators, state, config_changed, transaction_id, retry_config, max_lease_duration,
                   receive_packet_buffer, now, last_dhcp_xid, aborted>>

set_receive_packet_buffer ==
    /\ receive_packet_buffer' = Some(FreshBuffer)
    /\ UNCHANGED <<collaborators, state, config_changed, transaction_id, knobs, now, last_dhcp_xid, aborted>>

(***************************************************************************)
(* The clock.                                                              *)
(***************************************************************************)
Tick ==
    /\ now + from_secs(1) <= from_secs(MaxTime)
    /\ now' = now + from_secs(1)
    /\ UNCHANGED <<collaborators, state, config_changed, transaction_id, knobs, receive_packet_buffer,
                   last_dhcp_xid, aborted>>

(***************************************************************************)
(* The socket driven by the interface and the application: packets in,     *)
(* dispatch, poll, reset, the retry, lease and NAK knobs, and the clock.   *)
(* No receive buffer is registered in this specification.                  *)
(***************************************************************************)
Next ==
    \/ \E repr \in Icmpv6Reprs, len \in IcmpPayloadLens, uuid \in Uuids :
            process_icmpv6(repr, len, uuid)
    \/ \E pkt \in Inbounds, len \in DhcpPayloadLens :
            process_udp(pkt.parsed, len, pkt.src_ip)
    \/ \E next_transaction_id \in RandXids, emit_ok \in BOOLEAN :
            dispatch(next_transaction_id, emit_ok)
    \/ reset
    \/ poll
    \/ \E config \in RetryConfigs : set_retry_config(config)
    \/ \E d \in MaxLeaseDurations : set_max_lease_duration(d)
    \/ \E b \in BOOLEAN : set_ignore_naks(b)
    \/ Tick

Spec == Init /\ [][Next]_vars

(***************************************************************************)
(* The same socket with the default retry and lease knobs, where the       *)
(* application may register a receive buffer at any time.                  *)
(***************************************************************************)
NextBuffer ==
    \/ \E repr \in Icmpv6Reprs, len \in IcmpPayloadLens, uuid \in Uuids :
            process_icmpv6(repr, len, uuid)
    \/ \E pkt \in Inbounds, len \in DhcpPayloadLens :
            process_udp(pkt.parsed, len, pkt.src_ip)
    \/ \E next_transaction_id \in RandXids, emit_ok \in BOOLEAN :
            dispatch(next_transaction_id, emit_ok)
    \/ reset
    \/ poll
    \/ \E b \in BOOLEAN : set_ignore_naks(b)
    \/ set_receive_packet_buffer
    \/ Tick

SpecBuffer == Init /\ [][NextBuffer]_vars

(***************************************************************************)
(* The socket fed with the bytes of UDP payloads, which process_udp parses *)
(* itself.  Nothing runs after a panic.                                    *)
(***************************************************************************)
NextRaw ==
    \/ \E repr \in Icmpv6Reprs, len \in IcmpPayloadLens, uuid \in Uuids :
            ~aborted /\ process_icmpv6(repr, len, uuid)
    \/ \E payload \in Payloads :
            ~aborted /\ process_udp_payload(payload, ServerAddr)
    \/ \E next_transaction_id \in RandXids, emit_ok \in BOOLEAN :
            ~aborted /\ dispatch(next_transaction_id, emit_ok)
    \/ ~aborted /\ reset
    \/ ~aborted /\ poll
    \/ ~aborted /\ Tick

SpecRaw == Init /\ [][NextRaw]_vars

(***************************************************************************)
(* The socket under a scheduler that keeps calling dispatch and a device   *)
(* that eventually takes the frame.  Time passes up to MaxLiveTime, and    *)
(* past it only while a DhcpRequesting client waits for its retry timer,   *)
(* so that the bound never cuts an exchange short.  Router Advertisements  *)
(* and other ICMPv6 messages arrive up to MaxLiveTime.                     *)
(***************************************************************************)
MaxLiveTime == 1

Elapse ==
    /\ \/ now < from_secs(MaxLiveTime)
       \/ state.tag = "DhcpRequesting" /\ now < state.retry_at
    /\ now' = now + from_secs(1)
    /\ UNCHANGED <<collaborators, state, config_changed, transaction_id, knobs, receive_packet_buffer,
                   last_dhcp_xid, aborted>>

NextLive ==
    \/ \E repr \in Icmpv6Reprs, len \in IcmpPayloadLens, uuid \in Uuids :
            now <= from_secs(MaxLiveTime) /\ process_icmpv6(repr, len, uuid)
    \/ \E pkt \in Inbounds, len \in DhcpPayloadLens :
            process_udp(pkt.parsed, len, pkt.src_ip)
    \/ \E next_transaction_id \in RandXids, emit_ok \in BOOLEAN :
            dispatch(next_transaction_id, emit_ok)
    \/ reset
    \/ poll
    \/ Elapse

SpecLive ==
    /\ Init /\ [][NextLive]_vars
    /\ WF_vars(Elapse)
    /\ WF_vars(\E next_transaction_id \in RandXids : dispatch(next_transaction_id, TRUE))

(***************************************************************************)
(* The socket after a long run without an answer.  The retry counter of    *)
(* RouterSolicit and DhcpSolicit grows by one with every transmit and no   *)
(* code bounds it, so a client that has transmitted r times holds the      *)
(* counter r: the walk starts from such clients.  The counter is a u16 and *)
(* `state.retry += 1` at 65535 overflows: the build decides what happens,  *)
(* a panic where overflow is checked (the default of a debug build) and a  *)
(* wrap to 0 where it is not (the default of a release build).             *)
(***************************************************************************)
\* Transmits already made by the client the walk starts from.
RetryCounters == {0, 1, 2, 3, 15, 16, 17, U16_MAX - 1, U16_MAX}

WaitingStates ==
    {RouterSolicitState(from_millis(0), r) : r \in RetryCounters}
    \cup {[DhcpSolicitState(VecFromSlice(uuid, MAX_IDENTIFIER_LEN), 1500, [prefix_len |-> 64])
            EXCEPT !.retry = r] : uuid \in Uuids, r \in RetryCounters}

InitRetry ==
    /\ state \in WaitingStates
    /\ config_changed = TRUE
    /\ transaction_id = 1
    /\ max_lease_duration = None
    /\ retry_config = DefaultRetryConfig
    /\ ignore_naks = FALSE
    /\ receive_packet_buffer = None
    /\ now = 0
    /\ last_dhcp_xid = None
    /\ aborted = FALSE
    /\ WireIdle /\ WakerRegistration_new /\ SocketSet_new /\ ObserverNew

\* Whether this dispatch transmits and then increments a counter of 65535.
RetryOverflows(st, next_transaction_id, emit_ok, t) ==
    LET r == DispatchResult(st, config_changed, next_transaction_id, emit_ok, t)
    IN  /\ st.tag \in {"RouterSolicit", "DhcpSolicit", "DhcpRequesting"}
        /\ r.result = "Ok" /\ IsSome(r.emit)
        /\ st.retry = U16_MAX

\* What the build leaves of a dispatch: with overflow checks the increment
\* of 65535 panics after retry_at was assigned and before the transaction id
\* is stored; without them the call completes and the counter wraps.
DispatchOutcome(st, cc, next_transaction_id, emit_ok, t, overflow_checks) ==
    LET r == DispatchResult(st, cc, next_transaction_id, emit_ok, t)
    IN  IF overflow_checks /\ RetryOverflows(st, next_transaction_id, emit_ok, t)
        THEN [state |-> [st EXCEPT !.retry_at = r.state.retry_at], config_changed |-> cc,
              transaction_id |-> transaction_id, emit |-> r.emit, result |-> "Panic"]
        ELSE r

dispatch_built(next_transaction_id, emit_ok, overflow_checks) ==
    LET r == DispatchOutcome(state, config_changed, next_transaction_id, emit_ok, now,
                             overflow_checks)
    IN  /\ state' = r.state
        /\ config_changed' = r.config_changed
        /\ transaction_id' = r.transaction_id
        /\ last_dhcp_xid' = IF r.result # "Err" /\ IsSome(r.emit) /\ Unwrap(r.emit).kind = "Dhcp"
                            THEN Some(WireXid(Unwrap(r.emit))) ELSE last_dhcp_xid
        /\ aborted' = (r.result = "Panic")
        /\ UNCHANGED <<collaborators, knobs, receive_packet_buffer, now>>

NextRetry ==
    \/ \E repr \in Icmpv6Reprs, len \in IcmpPayloadLens, uuid \in Uuids :
            ~aborted /\ process_icmpv6(repr, len, uuid)
    \/ \E pkt \in Inbounds, len \in DhcpPayloadLens :
            ~aborted /\ process_udp(pkt.parsed, len, pkt.src_ip)
    \/ \E next_transaction_id \in RandXids, emit_ok \in BOOLEAN, overflow_checks \in BOOLEAN :
            ~aborted /\ dispatch_built(next_transaction_id, emit_ok, overflow_checks)
    \/ ~aborted /\ reset
    \/ \E config \in RetryConfigs : ~aborted /\ set_retry_config(config)
    \/ ~aborted /\ Tick

SpecRetry == InitRetry /\ [][NextRetry]_vars

(***************************************************************************)
(* The socket polled by the clock alone: the first dispatch is made at t0, *)
(* every later one at the instant retry_at holds, and nothing is received. *)
(* The client is one that has not transmitted yet: a fresh socket, or one  *)
(* that has taken a Router Advertisement.  Timeouts are set in             *)
(* milliseconds so that many dispatches fit.                               *)
(***************************************************************************)
\* The dispatches that are followed.
MaxDispatches == 20

StartTimes == {from_millis(0), from_millis(5), from_secs(1)}
BackoffRetryConfigs ==
    {[initial_request_timeout |-> from_millis(i), request_retries |-> 5,
      min_renew_timeout |-> from_secs(60)] : i \in {1, 3}}
FreshStates ==
    {RouterSolicitState(from_millis(0), 0)}
    \cup {DhcpSolicitState(VecFromSlice(uuid, MAX_IDENTIFIER_LEN), 1500, [prefix_len |-> 64]) :
            uuid \in Uuids}

InitBackoff ==
    /\ state \in FreshStates
    /\ config_changed = TRUE
    /\ transaction_id = 1
    /\ max_lease_duration = None
    /\ retry_config \in BackoffRetryConfigs
    /\ ignore_naks = FALSE
    /\ receive_packet_buffer = None
    /\ t0 \in StartTimes
    /\ now = t0
    /\ dispatches = 0
    /\ variants = <<state.tag>>
    /\ last_dhcp_xid = None
    /\ aborted = FALSE
    /\ WireIdle /\ WakerRegistration_new /\ SocketSet_new

\* Whether a dispatch put a packet on the wire.
Transmitted(r) == r.result = "Ok" /\ IsSome(r.emit)

\* dispatch called when the retry timer has just run out, or for the first
\* time.
dispatch_due(next_transaction_id, emit_ok) ==
    LET r == DispatchResult(state, config_changed, next_transaction_id, emit_ok, now)
    IN  /\ dispatches < MaxDispatches
        /\ dispatches = 0 \/ now = state.retry_at
        /\ state' = r.state
        /\ config_changed' = r.config_changed
        /\ transaction_id' = r.transaction_id
        /\ last_dhcp_xid' = IF SentDhcp(r) THEN Some(WireXid(Unwrap(r.emit))) ELSE last_dhcp_xid
        /\ dispatches' = IF Transmitted(r) THEN dispatches + 1 ELSE dispatches
        /\ UNCHANGED <<wire, registration, set, t0, variants, knobs, receive_packet_buffer, now,
                       aborted>>

\* The clock reaches the instant poll_at returned.
AwaitRetry ==
    /\ now < poll_at(state)
    /\ now' = poll_at(state)
    /\ UNCHANGED <<collaborators, state, config_changed, transaction_id, knobs,
                   receive_packet_buffer, last_dhcp_xid, aborted>>

NextBackoff ==
    \/ \E next_transaction_id \in RandXids, emit_ok \in BOOLEAN :
            dispatch_due(next_transaction_id, emit_ok)
    \/ AwaitRetry

SpecBackoff == InitBackoff /\ [][NextBackoff]_vars

(***************************************************************************)
(* The socket with an observer that notes the variant of the state after   *)
(* every inbound delivery and every variant that dispatch and reset give   *)
(* it from there on.  A call assigns self.state once at most, so a call is *)
(* one step.                                                               *)
(***************************************************************************)
\* The note after a call of dispatch or reset that left the variant tag.
Noted(tag) == IF tag = variants[Len(variants)] THEN variants ELSE Append(variants, tag)

process_icmpv6_noted(repr, len, uuid) ==
    LET r == ProcessIcmpv6Result(repr, len, uuid)
    IN  /\ receive_packet_buffer' = r.receive_packet_buffer
        /\ state' = r.state
        /\ config_changed' = r.config_changed
        /\ variants' = <<r.state.tag>>
        /\ UNCHANGED <<wire, registration, set, t0, dispatches, transaction_id, knobs, now,
                       last_dhcp_xid, aborted>>

process_udp_noted(parsed, len, src_ip) ==
    LET r == ProcessUdpResult(parsed, len, src_ip)
    IN  /\ receive_packet_buffer' = r.receive_packet_buffer
        /\ state' = r.state
        /\ config_changed' = r.config_changed
        /\ variants' = <<r.state.tag>>
        /\ UNCHANGED <<wire, registration, set, t0, dispatches, transaction_id, knobs, now,
                       last_dhcp_xid, aborted>>

dispatch_noted(next_transaction_id, emit_ok) ==
    LET r == DispatchResult(state, config_changed, next_transaction_id, emit_ok, now)
    IN  /\ state' = r.state
        /\ config_changed' = r.config_changed
        /\ transaction_id' = r.transaction_id
        /\ last_dhcp_xid' = IF SentDhcp(r) THEN Some(WireXid(Unwrap(r.emit))) ELSE last_dhcp_xid
        /\ variants' = Noted(r.state.tag)
        /\ UNCHANGED <<wire, registration, set, t0, dispatches, knobs, receive_packet_buffer,
                       now, aborted>>

reset_noted ==
    /\ state' = ResetState
    /\ config_changed' = ResetConfigChanged(state, config_changed)
    /\ variants' = Noted(ResetState.tag)
    /\ UNCHANGED <<wire, registration, set, t0, dispatches, transaction_id, knobs,
                   receive_packet_buffer, now, last_dhcp_xid, aborted>>

NextNoted ==
    \/ \E repr \in Icmpv6Reprs, len \in IcmpPayloadLens, uuid \in Uuids :
            process_icmpv6_noted(repr, len, uuid)
    \/ \E pkt \in Inbounds, len \in DhcpPayloadLens :
            process_udp_noted(pkt.parsed, len, pkt.src_ip)
    \/ \E next_transaction_id \in RandXids, emit_ok \in BOOLEAN :
            dispatch_noted(next_transaction_id, emit_ok)
    \/ reset_noted
    \/ \E config \in RetryConfigs : set_retry_config(config)
    \/ Tick

SpecNoted == Init /\ [][NextNoted]_vars

(***************************************************************************)
(* The codec on its own: a caller's buffer, an option writer over it, and  *)
(* the calls of Repr::emit, Dhcpv6OptionWriter::emit and Repr::parse on    *)
(* it.  The socket is left as constructed.                                 *)
(***************************************************************************)
\* Dhcpv6OptionWriter::emit is followed up to this write position.
MaxWritten == 12

\* A Repr with additional options.
WithOptions(r, options) ==
    [message_type |-> r.message_type, transaction_id |-> r.transaction_id,
     client_id |-> r.client_id, server_id |-> r.server_id,
     elapsed_time |-> r.elapsed_time, request_options |-> r.request_options,
     ia_na |-> r.ia_na, ia_ta |-> r.ia_ta, dns_servers |-> r.dns_servers,
     additional_options |-> options]

\* Reprs to emit, one for each field that can come last on the wire, and one
\* with every field.
HeaderRepr == Repr("Solicit", 1, None, None, None, None)
IaTa(addresses, status_code) ==
    [iaid |-> 22136, addresses |-> addresses, status_code |-> status_code]
FullRepr ==
    [Repr("Request", 66051, Some(EthernetAddr), Some(ShortDuid),
          Some(IaNa(3, 1, <<IaAddr(Addr(32, 17))>>, Some("Success"))), DnsOption)
     EXCEPT !.elapsed_time = Some(258), !.request_options = Some(<<OPT_DNS_SERVERS>>),
            !.ia_ta = Some(IaTa(<<IaAddr(Addr(32, 18))>>, None))]
PlainOptionReprs ==
    {Repr("Solicit", 1, Some(EthernetAddr), None, None, None),
     Repr("Reply", 1, Some(EthernetAddr), Some(ShortDuid), None, None),
     [HeaderRepr EXCEPT !.elapsed_time = Some(258)],
     [HeaderRepr EXCEPT !.request_options = Some(<<>>)],
     [HeaderRepr EXCEPT !.request_options = Some(<<OPT_DNS_SERVERS>>)],
     WithOptions(Repr("Solicit", 1, Some(EthernetAddr), None, None, None),
                 <<[kind |-> 39, data |-> <<1, 2, 3>>]>>)}
TwoRequestOptionsRepr ==
    [HeaderRepr EXCEPT !.request_options = Some(<<OPT_DNS_SERVERS, 24>>)]
IaNaReprs ==
    {Repr("Advertise", 1, None, None, Some(IaNa(3, 1, <<>>, None)), None),
     Repr("Advertise", 1, None, None, Some(IaNa(3, 1, <<IaAddr(Addr(32, 17))>>, None)), None),
     Repr("Advertise", 1, None, None, Some(IaNa(3, 1, <<>>, Some("NoAddrsAvail"))), None)}
IaTaReprs ==
    {[HeaderRepr EXCEPT !.ia_ta = Some(IaTa(<<>>, None))],
     [HeaderRepr EXCEPT !.ia_ta = Some(IaTa(<<IaAddr(Addr(32, 18))>>, None))],
     [HeaderRepr EXCEPT !.ia_ta = Some(IaTa(<<>>, Some("Success")))]}
DnsReprs ==
    {Repr("Reply", 1, None, None, None, Some([addresses |-> <<>>])),
     Repr("Reply", 1, None, None, None, Some([addresses |-> <<DnsAddr>>]))}
\* A client-id one byte longer than an option can carry.
OversizeRepr == Repr("Solicit", 1, Some(Bytes(U16_MAX + 1, 0)), None, None, None)
FittingReprs ==
    {HeaderRepr, FullRepr, TwoRequestOptionsRepr} \cup PlainOptionReprs
    \cup IaNaReprs \cup IaTaReprs \cup DnsReprs
\* Transaction ids as the u32 the caller holds: within 24 bits, and with bits
\* set above them (up to bit 30, the widest the model checker counts).
WideXids == {16777215, 16777216, 2130706433, 2147483647}
WideXidRepr == [FullRepr EXCEPT !.transaction_id = 2130706433]
WireReprs == FittingReprs \cup {OversizeRepr, WideXidRepr}

\* Options handed to the writer: without data, with data, with the longest
\* data an option can carry and with one byte more.
WriterOptions ==
    {[kind |-> 39, data |-> <<>>], [kind |-> 258, data |-> <<7>>],
     [kind |-> OPT_CLIENTID, data |-> <<1, 2, 3>>],
     [kind |-> OPT_CLIENTID, data |-> Bytes(U16_MAX, 0)],
     [kind |-> OPT_CLIENTID, data |-> Bytes(U16_MAX + 1, 0)]}

\* Buffers a caller allocates: of the length buffer_len gives for a Repr, or
\* one byte shorter, holding whatever was there before.
BufferLens == UNION {{buffer_len(r), buffer_len(r) - 1} : r \in FittingReprs}
StaleBuffer(n) == Bytes(n, 170)

InitWire ==
    /\ SocketNew
    /\ ObserverNew
    /\ WakerRegistration_new
    /\ SocketSet_new
    /\ wire_buffer \in {StaleBuffer(n) : n \in BufferLens}
    /\ wire_pos = 0
    /\ wire_call = "None"
    /\ wire_result = "None"
    /\ wire_parsed = None

\* Repr::emit into a packet over the buffer
emit(repr) ==
    /\ wire_call = "None"
    /\ LET e == Repr_emit(repr, wire_buffer)
       IN  /\ wire_buffer' = e.buffer
           /\ wire_pos' = e.pos
           /\ wire_result' = e.tag
    /\ wire_call' = "Repr::emit"
    /\ UNCHANGED <<socket, observer, registration, set, wire_parsed>>

\* Dhcpv6OptionWriter::emit on a writer over the rest of the buffer
writer_emit(option) ==
    /\ wire_result # "Panic"
    /\ wire_parsed = None
    /\ wire_pos < MaxWritten
    /\ LET w == Dhcpv6OptionWriter_emit(Dhcpv6OptionWriter_new(wire_buffer, wire_pos), option)
       IN  /\ wire_buffer' = w.buffer
           /\ wire_pos' = w.pos
           /\ wire_result' = w.tag
    /\ wire_call' = "Dhcpv6OptionWriter::emit"
    /\ UNCHANGED <<socket, observer, registration, set, wire_parsed>>

\* Packet::new_checked and Repr::parse on the buffer
parse ==
    /\ wire_result = "Ok"
    /\ wire_parsed = None
    /\ wire_parsed' = Some(ParsePayload(wire_buffer))
    /\ UNCHANGED <<socket, observer, registration, set, wire_buffer, wire_pos, wire_call, wire_result>>

NextWire ==
    \/ \E repr \in WireReprs : emit(repr)
    \/ \E option \in WriterOptions : writer_emit(option)
    \/ parse

SpecWire == InitWire /\ [][NextWire]_vars

(***************************************************************************)
(* The option iterator on its own: parse_options over a byte string, polled *)
(* by a for loop as Repr::parse and the IA parsers poll it, that is until  *)
(* the closure returns None.  wire_buffer is the byte string, wire_pos the *)
(* bytes the closure has taken off its front, wire_parsed the options      *)
(* yielded so far.                                                         *)
(***************************************************************************)
\* The longest byte string handed to parse_options.
MaxOptionBytes == 9

\* Byte strings of the bytes 0 and 1: headers of options of 0, 1, 256 and
\* 257 declared bytes.
ByteStrings == UNION {[1..n -> {0, 1}] : n \in 0..MaxOptionBytes}

\* A call of the closure that yields an incomplete option cut short.
OptionsNext_Truncating(buf) ==
    IF Len(buf) >= 4
    THEN LET kind == read_u16(buf)
             rest == Drop(buf, 2)
             len == read_u16(rest)
         IN  IF Len(rest) < 2 + len
             THEN [item |-> Some([kind |-> kind, data |-> Drop(rest, 2)]), buf |-> <<>>]
             ELSE [item |-> Some([kind |-> kind, data |-> SubSeq(rest, 3, 2 + len)]),
                   buf |-> Drop(rest, 2 + len)]
    ELSE [item |-> None, buf |-> buf]

\* One call of the closure of parse_options: the item it returns and the
\* slice it keeps.  The kind is taken off the slice before the length is
\* tested.
OptionsNext(buf) ==
    IF Len(buf) >= 4
    THEN LET kind == read_u16(buf)
             rest == Drop(buf, 2)
             len == read_u16(rest)
         IN  IF Len(rest) < 2 + len
             THEN [item |-> None, buf |-> rest]
             ELSE [item |-> Some([kind |-> kind, data |-> SubSeq(rest, 3, 2 + len)]),
                   buf |-> Drop(rest, 2 + len)]
    ELSE [item |-> None, buf |-> buf]

InitOptions ==
    /\ SocketNew /\ ObserverNew /\ WakerRegistration_new /\ SocketSet_new
    /\ wire_buffer \in ByteStrings
    /\ wire_pos = 0
    /\ wire_call = "parse_options"
    /\ wire_result = "None"
    /\ wire_parsed = <<>>

\* Iterator::next, called by the loop until it returns None
options_next ==
    /\ wire_call = "parse_options"
    /\ wire_result # "End"
    /\ LET n == OptionsNext(Drop(wire_buffer, wire_pos))
       IN  /\ wire_pos' = Len(wire_buffer) - Len(n.buf)
           /\ wire_result' = IF IsSome(n.item) THEN "Some" ELSE "End"
           /\ wire_parsed' = IF IsSome(n.item) THEN Append(wire_parsed, Unwrap(n.item))
                             ELSE wire_parsed
    /\ UNCHANGED <<socket, observer, registration, set, wire_buffer, wire_call>>

NextOptions == options_next

\* The loop keeps polling the iterator.
SpecOptions == InitOptions /\ [][NextOptions]_vars /\ WF_vars(options_next)

(***************************************************************************)
(* The waker registration of the socket (src/socket/waker.rs).  A waker is *)
(* the task it wakes and the clone it is: will_wake compares the tasks.    *)
(* The chain of WakerNext is the sequence of its wakers, None the empty    *)
(* one.                                                                    *)
(***************************************************************************)
\* Tasks that hand in wakers.
MaxTasks == 3
Wakers == [task : 1..MaxTasks, clone : {1, 2}]

will_wake(w2, w) == w2.task = w.task

\* WakerRegistration::register
WakerRegistration_register_AlwaysOverwrites(list, w) == <<w>>

WakerRegistration_register(list, w) ==
    IF list # None /\ will_wake(list[1], w) THEN list ELSE <<w>>

\* WakerRegistration::add
WakerRegistration_add_FirstOnly(list, w) ==
    IF list = None THEN WakerRegistration_register(list, w)
    ELSE IF will_wake(list[1], w) THEN list
    ELSE Append(list, w)

WakerRegistration_add(list, w) ==
    IF list = None THEN WakerRegistration_register(list, w)
    ELSE IF will_wake(list[1], w) THEN list
    ELSE IF \E i \in 2..Len(list) : will_wake(list[i], w) THEN list
    ELSE Append(list, w)

\* WakerRegistration::wake_all_and_clear, ::wake_all_by_ref and ::wake_all:
\* the chain left and the wakers woken by wake_by_ref, in order.
wake_all_and_clear(list) == [waker |-> None, woken |-> list]
wake_all_by_ref(list) == [waker |-> list, woken |-> list]
WakerRegistration_wake_all_NeverClears(list, clear) == wake_all_by_ref(list)

WakerRegistration_wake_all(list, clear) ==
    IF clear THEN wake_all_and_clear(list) ELSE wake_all_by_ref(list)

\* WakerRegistration::clear
WakerRegistration_clear(list) == [waker |-> None, woken |-> <<>>]

\* Drop for WakerRegistration
WakerRegistration_drop_Silent(list) == WakerRegistration_clear(list)

WakerRegistration_drop(list) == wake_all_and_clear(list)

\* Socket::register_waker
register_waker(w) ==
    /\ ~dropped
    /\ waker' = WakerRegistration_register(waker, w)
    /\ woken' = <<>>
    /\ last_call' = <<"register", w>>
    /\ previous' = waker
    /\ UNCHANGED <<socket, observer, wire, set, clear_on_wake, dropped>>

\* Socket::add_waker
add_waker(w) ==
    /\ ~dropped
    /\ waker' = WakerRegistration_add(waker, w)
    /\ woken' = <<>>
    /\ last_call' = <<"add", w>>
    /\ previous' = waker
    /\ UNCHANGED <<socket, observer, wire, set, clear_on_wake, dropped>>

\* WakerRegistration::set_clear_on_wake
set_clear_on_wake(b) ==
    /\ ~dropped
    /\ clear_on_wake' = b
    /\ woken' = <<>>
    /\ last_call' = <<"set_clear_on_wake">>
    /\ previous' = waker
    /\ UNCHANGED <<socket, observer, wire, set, waker, dropped>>

\* WakerRegistration::wake_all, as Socket::config_changed calls it
wake_all ==
    /\ ~dropped
    /\ LET r == WakerRegistration_wake_all(waker, clear_on_wake)
       IN  waker' = r.waker /\ woken' = r.woken
    /\ last_call' = <<"wake_all">>
    /\ previous' = waker
    /\ UNCHANGED <<socket, observer, wire, set, clear_on_wake, dropped>>

\* Socket::clear_waker
clear_waker ==
    /\ ~dropped
    /\ LET r == WakerRegistration_clear(waker)
       IN  waker' = r.waker /\ woken' = r.woken
    /\ last_call' = <<"clear">>
    /\ previous' = waker
    /\ UNCHANGED <<socket, observer, wire, set, clear_on_wake, dropped>>

\* The socket, and its WakerRegistration with it, is dropped.
drop ==
    /\ ~dropped
    /\ LET r == WakerRegistration_drop(waker)
       IN  waker' = r.waker /\ woken' = r.woken
    /\ last_call' = <<"drop">>
    /\ previous' = waker
    /\ dropped' = TRUE
    /\ UNCHANGED <<socket, observer, wire, set, clear_on_wake>>

InitWaker == SocketNew /\ WireIdle /\ WakerRegistration_new /\ SocketSet_new /\ ObserverNew

NextWaker ==
    \/ \E w \in Wakers : register_waker(w)
    \/ \E w \in Wakers : add_waker(w)
    \/ \E b \in BOOLEAN : set_clear_on_wake(b)
    \/ wake_all
    \/ clear_waker
    \/ drop

SpecWaker == InitWaker /\ [][NextWaker]_vars

(***************************************************************************)
(* The socket set of the interface (src/iface/socket_set.rs).  A slot is   *)
(* None or Some of an item; a handle is the index of a slot, from 0.  A    *)
(* socket is known by an identity.  A call returns Ok with the slots it    *)
(* leaves and its return value, or panics.                                 *)
(***************************************************************************)
\* Sockets the application owns.
MaxSockets == 3
\* Slots of a fixed-size (borrowed) storage.
BorrowedSlots == 2
Sockets == 1..MaxSockets

Item(handle, non_blocking, s) ==
    [meta |-> [handle |-> handle, non_blocking |-> non_blocking], socket |-> s]
\* self.sockets[handle.0]
Slot(slots, handle) == slots[handle + 1]
InRange(slots, handle) == handle + 1 \in 1..Len(slots)
Stored(slots) == {Unwrap(slots[i]).socket : i \in {j \in 1..Len(slots) : IsSome(slots[j])}}
Handles(slots) == {h \in 0..(Len(slots) - 1) : IsSome(Slot(slots, h))}

\* put in SocketSet::add_ext_internal
put(slots, index, s, non_blocking) ==
    [tag |-> "Ok",
     sockets |-> [slots EXCEPT ![index + 1] = Some(Item(index, non_blocking, s))],
     value |-> index]

\* SocketSet::add_ext_internal: the first empty slot, or a new one at the end
\* of a Vec.
add_ext_internal(kind, slots, s, non_blocking) ==
    IF \E h \in 0..(Len(slots) - 1) : Slot(slots, h) = None
    THEN put(slots, CHOOSE h \in 0..(Len(slots) - 1) :
                        /\ Slot(slots, h) = None
                        /\ \A g \in 0..(h - 1) : Slot(slots, g) # None,
             s, non_blocking)
    ELSE IF kind = "Borrowed" THEN [tag |-> "Panic", sockets |-> slots, value |-> None]
    ELSE put(Append(slots, None), Len(slots), s, non_blocking)

\* SocketSet::swap: the new socket takes the place of the one at handle, which
\* is added again; its new handle is returned.
SocketSet_swap(kind, slots, handle, s) ==
    IF ~InRange(slots, handle) \/ Slot(slots, handle) = None
    THEN [tag |-> "Panic", sockets |-> slots, value |-> None]
    ELSE LET item == Unwrap(Slot(slots, handle))
             swapped == [slots EXCEPT ![handle + 1] = Some([item EXCEPT !.socket = s])]
         IN  add_ext_internal(kind, swapped, item.socket, item.meta.non_blocking)

\* SocketSet::remove: the slot is emptied and its socket returned.
SocketSet_remove_Compacting(slots, handle) ==
    IF ~InRange(slots, handle) \/ Slot(slots, handle) = None
    THEN [tag |-> "Panic", sockets |-> slots, value |-> None]
    ELSE [tag |-> "Ok",
          sockets |-> SubSeq(slots, 1, handle) \o SubSeq(slots, handle + 2, Len(slots)),
          value |-> Unwrap(Slot(slots, handle)).socket]

SocketSet_remove(slots, handle) ==
    IF ~InRange(slots, handle) \/ Slot(slots, handle) = None
    THEN [tag |-> "Panic", sockets |-> slots, value |-> None]
    ELSE [tag |-> "Ok",
          sockets |-> [slots EXCEPT ![handle + 1] = None],
          value |-> Unwrap(Slot(slots, handle)).socket]

\* What a call leaves behind; nothing runs after a panic.
Returns(op, r) ==
    /\ returned.op # "panic"
    /\ sockets' = r.sockets
    /\ returned' = IF r.tag = "Ok" THEN [op |-> op, value |-> r.value] ELSE [op |-> "panic"]
    /\ UNCHANGED <<socket, observer, wire, registration, storage>>

\* SocketSet::add
add(s) ==
    /\ s \notin Stored(sockets)
    /\ Returns("add", add_ext_internal(storage, sockets, s, FALSE))

\* SocketSet::add_ext
add_ext(s, non_blocking) ==
    /\ s \notin Stored(sockets)
    /\ Returns("add_ext", add_ext_internal(storage, sockets, s, non_blocking))

\* SocketSet::swap
swap(handle, s) ==
    /\ s \notin Stored(sockets)
    /\ Returns("swap", SocketSet_swap(storage, sockets, handle, s))

\* SocketSet::remove
remove(handle) == Returns("remove", SocketSet_remove(sockets, handle))

\* SocketSet::new over a Vec without slots or over a borrowed slice of empty
\* slots.
InitSet ==
    /\ SocketNew /\ WireIdle /\ WakerRegistration_new /\ ObserverNew
    /\ \/ storage = "Owned" /\ sockets = <<>>
       \/ storage = "Borrowed" /\ sockets = [i \in 1..BorrowedSlots |-> None]
    /\ returned = [op |-> "new"]

\* A handle a caller may pass: of a slot, or one past the last.
NextSet ==
    \/ \E s \in Sockets : add(s)
    \/ \E s \in Sockets, non_blocking \in BOOLEAN : add_ext(s, non_blocking)
    \/ \E handle \in 0..Len(sockets), s \in Sockets : swap(handle, s)
    \/ \E handle \in 0..Len(sockets) : remove(handle)

SpecSet == InitSet /\ [][NextSet]_vars

(***************************************************************************)
(* Properties.  Each is stated over the reachable states of Spec and over  *)
(* every input the environment can offer in that state.                    *)
(***************************************************************************)
\* The inbound messages of one type.
ParsedOf(message_type) ==
    {pkt \in Inbounds : IsSome(pkt.parsed) /\ Unwrap(pkt.parsed).message_type = message_type}

\* An IA_NA option with at least one address and no status other than Success.
LeaseGranted(ia_na) ==
    /\ IsSome(ia_na)
    /\ Unwrap(ia_na).addresses # <<>>
    /\ Unwrap(ia_na).status_code \in {None, Some("Success")}

\* A Router Advertisement with the MANAGED flag, an MTU and a prefix information.
ManagedAdvert(repr) ==
    repr.kind = "RouterAdvert" /\ repr.managed /\ IsSome(repr.mtu) /\ IsSome(repr.prefix_info)

Deconfigured == Some([kind |-> "Deconfigured"])
LeaseStates == {"DhcpSolicit", "DhcpRequesting", "DhcpRenewing"}

\* C1: in DhcpRequesting, a Confirm with the socket's transaction id, the
\* stored client-id and the latched server-id, whose IA_NA holds at least one
\* address and no status other than Success, moves the socket to DhcpRenewing
\* and sets config_changed; the Config has the server latched at Advertise,
\* the first IA_NA address with the Router Advertisement's prefix length, the
\* Confirm's source address as router, and no packet.
C1_ConfirmInRequesting ==
    \A pkt \in ParsedOf("Confirm"), len \in DhcpPayloadLens :
        LET repr == Unwrap(pkt.parsed)
            r == ProcessUdpResult(pkt.parsed, len, pkt.src_ip)
        IN  (/\ state.tag = "DhcpRequesting"
             /\ repr.transaction_id = transaction_id
             /\ IdMatches(repr.client_id, state.client_id)
             /\ IdMatches(repr.server_id, state.server.identifier)
             /\ LeaseGranted(repr.ia_na))
            => /\ r.state.tag = "DhcpRenewing"
               /\ r.config_changed
               /\ r.state.config.server = state.server
               /\ r.state.config.address =
                    [address |-> Unwrap(repr.ia_na).addresses[1].addr,
                     prefix_len |-> state.prefix_info.prefix_len]
               /\ r.state.config.router = Some(pkt.src_ip)
               /\ r.state.config.packet = None

\* A DhcpRequesting state with the flag cleared in which a Confirm relayed
\* from another address than the server's is accepted.
C1_Witness ==
    /\ state.tag = "DhcpRequesting"
    /\ ~config_changed
    /\ \E pkt \in ParsedOf("Confirm") :
          /\ pkt.src_ip = RelayAddr
          /\ Unwrap(pkt.parsed).transaction_id = transaction_id
          /\ IdMatches(Unwrap(pkt.parsed).client_id, state.client_id)
          /\ IdMatches(Unwrap(pkt.parsed).server_id, state.server.identifier)
          /\ LeaseGranted(Unwrap(pkt.parsed).ia_na)
          /\ ProcessUdpResult(pkt.parsed, BufCap, pkt.src_ip).state.tag = "DhcpRenewing"

\* C2: in every DhcpRenewing state, renew_at is not later than expires_at.
C2_RenewNotAfterExpiry ==
    state.tag = "DhcpRenewing" => state.renew_at <= state.expires_at

\* C3: a packet process_udp accepts (one that changes the state) carries the
\* transaction id of the DHCPv6 message emitted last; none is accepted before
\* a DHCPv6 message was emitted.
C3_AcceptedXidWasEmitted ==
    \A pkt \in Inbounds, len \in DhcpPayloadLens :
        LET r == ProcessUdpResult(pkt.parsed, len, pkt.src_ip)
        IN  (IsSome(pkt.parsed) /\ r.state # state)
            => last_dhcp_xid = Some(Unwrap(pkt.parsed).transaction_id)

\* C4: dispatch stores the new transaction id exactly when it called emit and
\* the callback succeeded; when the callback fails, dispatch returns the error
\* and leaves the state (variant, retry_at, retry, renew_at, expires_at),
\* transaction_id and config_changed as they were.
C4_DispatchTransactionId ==
    \A next_transaction_id \in RandXids, emit_ok \in BOOLEAN :
        LET r == DispatchResult(state, config_changed, next_transaction_id, emit_ok, now)
            called == IsSome(r.emit)
        IN  /\ r.transaction_id =
                 IF called /\ emit_ok THEN next_transaction_id ELSE transaction_id
            /\ (called /\ ~emit_ok)
                  => /\ r.result = "Err"
                     /\ r.state = state
                     /\ r.config_changed = config_changed
                     /\ r.transaction_id = transaction_id
            /\ r.result = "Err" => (called /\ ~emit_ok)

\* A DhcpRequesting state in which dispatch calls emit with a transaction id
\* other than the stored one.
C4_Witness ==
    /\ state.tag = "DhcpRequesting"
    /\ \E next_transaction_id \in RandXids :
          /\ next_transaction_id # transaction_id
          /\ IsSome(DispatchResult(state, config_changed, next_transaction_id, FALSE, now).emit)
          /\ DispatchResult(state, config_changed, next_transaction_id, TRUE, now).transaction_id
                = next_transaction_id

\* C5: process_udp leaves DhcpSolicit only for an Advertise with the socket's
\* transaction id, a server-id, an IA_NA with at least one address and a
\* client-id bytewise equal to the stored one; the new state is DhcpRequesting
\* with server = (source address, the Advertise's server-id), the IA_NA's iaid,
\* requested_ip = the first address, retry_at = now, retry = 0 and the
\* client_id, mtu and prefix_info of the DhcpSolicit state.
C5_AdvertiseLatched ==
    \A pkt \in Inbounds, len \in DhcpPayloadLens :
        LET r == ProcessUdpResult(pkt.parsed, len, pkt.src_ip)
        IN  (state.tag = "DhcpSolicit" /\ r.state # state)
            => /\ IsSome(pkt.parsed)
               /\ LET repr == Unwrap(pkt.parsed)
                  IN  /\ repr.message_type = "Advertise"
                      /\ repr.transaction_id = transaction_id
                      /\ IsSome(repr.server_id)
                      /\ IsSome(repr.ia_na)
                      /\ Unwrap(repr.ia_na).addresses # <<>>
                      /\ repr.client_id = Some(state.client_id)
                      /\ r.state =
                           [tag |-> "DhcpRequesting",
                            client_id |-> state.client_id,
                            retry_at |-> now, retry |-> 0,
                            iaid |-> Unwrap(repr.ia_na).iaid,
                            server |-> [address |-> pkt.src_ip,
                                        identifier |-> Unwrap(repr.server_id)],
                            requested_ip |-> Unwrap(repr.ia_na).addresses[1].addr,
                            mtu |-> state.mtu, prefix_info |-> state.prefix_info]

\* C6: in RouterSolicit, process_icmpv6 changes the state exactly for a Router
\* Advertisement with the MANAGED flag, an MTU option and a prefix-information
\* option, and the new state is DhcpSolicit with retry_at = 0 and retry = 0;
\* any other ICMPv6 message leaves the state, retry and retry_at included, as
\* it was; no dispatch in RouterSolicit emits a DHCPv6 message.
C6_RouterSolicitLeaves ==
    state.tag = "RouterSolicit"
    => /\ \A repr \in Icmpv6Reprs, len \in IcmpPayloadLens, uuid \in Uuids :
             LET r == ProcessIcmpv6Result(repr, len, uuid)
             IN  IF ManagedAdvert(repr)
                 THEN /\ r.state.tag = "DhcpSolicit"
                      /\ r.state.retry_at = 0
                      /\ r.state.retry = 0
                 ELSE r.state = state
       /\ \A next_transaction_id \in RandXids, emit_ok \in BOOLEAN :
             LET r == DispatchResult(state, config_changed, next_transaction_id, emit_ok, now)
             IN  /\ ~SentDhcp(r)
                 /\ IsSome(r.emit) => Unwrap(r.emit).kind = "Icmp"
                 /\ r.state.tag = "RouterSolicit"

\* A RouterSolicit state that has already retried and whose next Router
\* Solicitation is due.
C6_Witness ==
    /\ state.tag = "RouterSolicit"
    /\ state.retry > 0
    /\ now >= state.retry_at
    /\ IsSome(DispatchResult(state, config_changed, 1, TRUE, now).emit)

\* C7: the stored client-id does not change from the Router Advertisement
\* until the socket returns to RouterSolicit, and every Solicit, Request and
\* Renew sent carries the client-id an Advertise or Confirm must carry to be
\* accepted.
C7_ClientIdCarried ==
    state.tag \in LeaseStates
    => /\ \A next_transaction_id \in RandXids, emit_ok \in BOOLEAN :
             LET r == DispatchResult(state, config_changed, next_transaction_id, emit_ok, now)
             IN  /\ r.state.tag \in LeaseStates => r.state.client_id = state.client_id
                 /\ IsSome(r.emit) => Unwrap(r.emit).repr.client_id = Some(state.client_id)
       /\ \A pkt \in Inbounds, len \in DhcpPayloadLens :
             LET r == ProcessUdpResult(pkt.parsed, len, pkt.src_ip)
             IN  /\ r.state.tag \in LeaseStates => r.state.client_id = state.client_id
                 /\ (r.state # state /\ Unwrap(pkt.parsed).message_type \in {"Advertise", "Confirm"})
                       => Unwrap(pkt.parsed).client_id = Some(state.client_id)

\* C8 as stated: in DhcpRequesting with ignore_naks = false, a Decline with the
\* socket's transaction id moves the state to RouterSolicit and the next poll()
\* returns Deconfigured, whatever polls were made before.
C8_DeclineDeconfigures ==
    \A pkt \in ParsedOf("Decline"), len \in DhcpPayloadLens :
        LET r == ProcessUdpResult(pkt.parsed, len, pkt.src_ip)
        IN  (/\ state.tag = "DhcpRequesting"
             /\ ~ignore_naks
             /\ Unwrap(pkt.parsed).transaction_id = transaction_id)
            => /\ r.state.tag = "RouterSolicit"
               /\ PollEvent(r.state, r.config_changed, r.receive_packet_buffer) = Deconfigured

\* C8 amended: in DhcpRequesting with ignore_naks = false, a Decline with the
\* socket's transaction id and a server-id option moves the state to
\* RouterSolicit with retry_at = 0 and retry = 0 and leaves config_changed as
\* it was; the next poll() returns Deconfigured when config_changed was set at
\* the Decline, and None when an earlier poll() had cleared it.
C8_DeclineKeepsFlag ==
    \A pkt \in ParsedOf("Decline"), len \in DhcpPayloadLens :
        LET r == ProcessUdpResult(pkt.parsed, len, pkt.src_ip)
        IN  (/\ state.tag = "DhcpRequesting"
             /\ ~ignore_naks
             /\ Unwrap(pkt.parsed).transaction_id = transaction_id
             /\ IsSome(Unwrap(pkt.parsed).server_id))
            => /\ r.state = RouterSolicitState(0, 0)
               /\ r.config_changed = config_changed
               /\ PollEvent(r.state, r.config_changed, r.receive_packet_buffer) =
                    IF config_changed THEN Deconfigured ELSE None

\* A DhcpRequesting state, polled since the last event, in which a Decline
\* with the socket's transaction id and a server-id resets the socket.
C8_Witness ==
    /\ state.tag = "DhcpRequesting"
    /\ ~ignore_naks
    /\ ~config_changed
    /\ \E pkt \in ParsedOf("Decline") :
          /\ Unwrap(pkt.parsed).transaction_id = transaction_id
          /\ IsSome(Unwrap(pkt.parsed).server_id)
          /\ ProcessUdpResult(pkt.parsed, BufCap, pkt.src_ip).state.tag = "RouterSolicit"

\* C9 as stated: a Decline with the socket's transaction id received in
\* DhcpRequesting or DhcpRenewing resets the state machine exactly when
\* ignore_naks is false; when it is true, the state, its timers and
\* config_changed are unchanged and poll() has an event to return only if it
\* had one before.
C9_DeclineResetsUnlessIgnored ==
    \A pkt \in ParsedOf("Decline"), len \in DhcpPayloadLens :
        LET r == ProcessUdpResult(pkt.parsed, len, pkt.src_ip)
        IN  (/\ state.tag \in {"DhcpRequesting", "DhcpRenewing"}
             /\ Unwrap(pkt.parsed).transaction_id = transaction_id)
            => IF ~ignore_naks
               THEN r.state = RouterSolicitState(0, 0)
               ELSE /\ r.state = state
                    /\ r.config_changed = config_changed
                    /\ (PollEvent(r.state, r.config_changed, r.receive_packet_buffer) = None)
                         <=> (PollEvent(state, config_changed, receive_packet_buffer) = None)

\* C9 amended: a Decline with the socket's transaction id received in
\* DhcpRequesting or DhcpRenewing resets the state machine exactly when it
\* carries a server-id option and ignore_naks is false; otherwise the state,
\* its timers and config_changed are unchanged and poll() has an event to
\* return only if it had one before.
C9_DeclineWithServerIdResets ==
    \A pkt \in ParsedOf("Decline"), len \in DhcpPayloadLens :
        LET r == ProcessUdpResult(pkt.parsed, len, pkt.src_ip)
        IN  (/\ state.tag \in {"DhcpRequesting", "DhcpRenewing"}
             /\ Unwrap(pkt.parsed).transaction_id = transaction_id)
            => IF IsSome(Unwrap(pkt.parsed).server_id) /\ ~ignore_naks
               THEN /\ r.state = RouterSolicitState(0, 0)
                    /\ r.config_changed = (config_changed \/ state.tag = "DhcpRenewing")
               ELSE /\ r.state = state
                    /\ r.config_changed = config_changed
                    /\ (PollEvent(r.state, r.config_changed, r.receive_packet_buffer) = None)
                         <=> (PollEvent(state, config_changed, receive_packet_buffer) = None)

\* A DhcpRenewing state with ignore_naks set in which a Decline with the
\* socket's transaction id and a server-id arrives and is ignored.
C9_Witness ==
    /\ state.tag = "DhcpRenewing"
    /\ ignore_naks
    /\ \E pkt \in ParsedOf("Decline") :
          /\ Unwrap(pkt.parsed).transaction_id = transaction_id
          /\ IsSome(Unwrap(pkt.parsed).server_id)
          /\ ProcessUdpResult(pkt.parsed, BufCap, pkt.src_ip).state = state

\* C10: in DhcpRenewing, a dispatch at now >= expires_at moves the state to
\* RouterSolicit with retry_at = 0 and retry = 0, sets config_changed and
\* emits nothing; the next poll() returns Deconfigured.
C10_LeaseExpiry ==
    \A next_transaction_id \in RandXids, emit_ok \in BOOLEAN :
        LET r == DispatchResult(state, config_changed, next_transaction_id, emit_ok, now)
        IN  (state.tag = "DhcpRenewing" /\ now >= state.expires_at)
            => /\ r.state = RouterSolicitState(0, 0)
               /\ r.config_changed
               /\ r.emit = None
               /\ r.result = "Ok"
               /\ PollEvent(r.state, r.config_changed, receive_packet_buffer) = Deconfigured

\* A DhcpRenewing state, polled since the lease was configured, whose lease
\* has run out.
C10_Witness ==
    /\ state.tag = "DhcpRenewing"
    /\ now >= state.expires_at
    /\ ~config_changed
    /\ DispatchResult(state, config_changed, 1, TRUE, now).state.tag = "RouterSolicit"

\* C11: process_udp neither aborts nor changes the client for a malformed
\* payload: for a payload shorter than the header, with a truncated option,
\* or with an IA_NA, IA_TA or IA address option shorter than its fixed
\* fields, the call returns and the state, transaction_id and config_changed
\* are as before.
C11_MalformedDropped ==
    \A payload \in MalformedPayloads :
        LET r == ProcessUdpPayloadResult(payload, ServerAddr)
        IN  /\ ~r.aborted
            /\ r.state = state
            /\ r.config_changed = config_changed

\* The ways C12 names in which a well-formed packet does not fit the exchange.
WrongXid(repr) == repr.transaction_id # transaction_id
NoServerId(repr) == repr.server_id = None
ClientIdDiffers(repr, st) ==
    st.tag # "RouterSolicit" /\ IsSome(repr.client_id) /\ ~IdMatches(repr.client_id, st.client_id)
StoredServerId(st) ==
    IF st.tag = "DhcpRequesting" THEN Some(st.server.identifier)
    ELSE IF st.tag = "DhcpRenewing" THEN Some(st.config.server.identifier)
    ELSE None
ServerIdDiffers(repr, st) ==
    /\ IsSome(StoredServerId(st)) /\ IsSome(repr.server_id)
    /\ ~IdMatches(repr.server_id, Unwrap(StoredServerId(st)))
IaNaMissingOrEmpty(repr) ==
    repr.ia_na = None \/ Unwrap(repr.ia_na).addresses = <<>>
IaNaStatusNotSuccess(repr) ==
    /\ IsSome(repr.ia_na) /\ IsSome(Unwrap(repr.ia_na).status_code)
    /\ Unwrap(Unwrap(repr.ia_na).status_code) # "Success"
Unfit(repr, st) ==
    \/ WrongXid(repr) \/ NoServerId(repr)
    \/ ClientIdDiffers(repr, st) \/ ServerIdDiffers(repr, st)
    \/ IaNaMissingOrEmpty(repr) \/ IaNaStatusNotSuccess(repr)

\* C12: a well-formed inbound packet with a wrong transaction id, no
\* server-id, a client-id or server-id that differs from the stored one, a
\* missing or empty IA_NA, or a non-Success IA_NA status is dropped in every
\* state: the state with its counters, timers and Config, and config_changed
\* are what they were (process_udp never assigns transaction_id).
C12_UnfitDropped ==
    \A pkt \in Inbounds :
        (IsSome(pkt.parsed) /\ Unfit(Unwrap(pkt.parsed), state)) =>
            LET r == ProcessUdpResult(pkt.parsed, BufCap, pkt.src_ip)
            IN  r.state = state /\ r.config_changed = config_changed

\* C13: poll() returns None exactly when config_changed is clear; otherwise it
\* clears the flag and returns Configured with the current Config in
\* DhcpRenewing and Deconfigured in every other state; a second poll() right
\* after one that returned an event returns None.
C13_PollEvents ==
    LET r == PollResult(state, config_changed, receive_packet_buffer)
        again == PollResult(state, r.config_changed, receive_packet_buffer)
    IN  /\ (r.event = None) <=> ~config_changed
        /\ ~config_changed => r.config_changed = config_changed
        /\ config_changed =>
              /\ r.config_changed = FALSE
              /\ state.tag # "DhcpRenewing" =>
                    Unwrap(r.event) = [kind |-> "Deconfigured"]
              /\ state.tag = "DhcpRenewing" =>
                    /\ Unwrap(r.event).kind = "Configured"
                    /\ Unwrap(r.event).config.server = state.config.server
                    /\ Unwrap(r.event).config.address = state.config.address
                    /\ Unwrap(r.event).config.router = state.config.router
                    /\ Unwrap(r.event).config.dns_servers = state.config.dns_servers
        /\ r.event = None \/ again.event = None

\* A lease is held and not yet reported: poll() returns Configured.
C13_Witness ==
    /\ config_changed
    /\ state.tag = "DhcpRenewing"
    /\ PollResult(state, config_changed, receive_packet_buffer).event # None
    /\ Unwrap(PollResult(state, config_changed, receive_packet_buffer).event).kind = "Configured"

\* C14: reset() called in any state leaves the client in RouterSolicit with
\* retry_at = 0 and retry = 0; config_changed is set exactly when the state
\* before the call was DhcpRenewing and is otherwise what it was;
\* transaction_id and the configuration knobs are unchanged.
C14_Reset ==
    [][reset =>
        /\ state' = [tag |-> "RouterSolicit", retry_at |-> 0, retry |-> 0]
        /\ config_changed' = (state.tag = "DhcpRenewing" \/ config_changed)
        /\ UNCHANGED <<transaction_id, max_lease_duration, retry_config, ignore_naks>>]_vars

\* A lease that was already reported: reset() is what sets the flag.
C14_Witness ==
    /\ state.tag = "DhcpRenewing"
    /\ ~config_changed
    /\ transaction_id # 1
    /\ retry_config # DefaultRetryConfig
    /\ ResetConfigChanged(state, config_changed)

\* C15: poll_at is retry_at in RouterSolicit, DhcpSolicit and DhcpRequesting
\* and min(renew_at, expires_at) in DhcpRenewing, and a dispatch at a time
\* earlier than poll_at is a no-op: the emit callback is not called and the
\* state, transaction_id and config_changed are what they were.
C15_DispatchBeforePollAt ==
    /\ state.tag \in {"RouterSolicit", "DhcpSolicit", "DhcpRequesting"} =>
            poll_at(state) = state.retry_at
    /\ state.tag = "DhcpRenewing" =>
            /\ poll_at(state) <= state.renew_at /\ poll_at(state) <= state.expires_at
            /\ poll_at(state) \in {state.renew_at, state.expires_at}
    /\ \A next_transaction_id \in RandXids, emit_ok \in BOOLEAN :
            now < poll_at(state) =>
                LET r == DispatchResult(state, config_changed, next_transaction_id, emit_ok, now)
                IN  /\ r.emit = None
                    /\ r.state = state
                    /\ r.transaction_id = transaction_id
                    /\ r.config_changed = config_changed

\* A lease whose expiry comes before its renewal, and neither is due yet.
C15_Witness ==
    /\ state.tag = "DhcpRenewing"
    /\ state.expires_at < state.renew_at
    /\ now < poll_at(state)
    /\ DispatchResult(state, config_changed, 1, TRUE, now).emit = None

\* What C16 says of one dispatch in DhcpRequesting whose retry timer is due:
\* with the retries used up it resets the client without calling emit, and
\* a Request goes out only as the (retry + 1)-th of at most request_retries.
RequestsBounded ==
    \A next_transaction_id \in RandXids, emit_ok \in BOOLEAN :
        (state.tag = "DhcpRequesting" /\ now >= state.retry_at) =>
            LET r == DispatchResult(state, config_changed, next_transaction_id, emit_ok, now)
            IN  /\ state.retry >= retry_config.request_retries =>
                        r.emit = None /\ r.state = [tag |-> "RouterSolicit", retry_at |-> 0, retry |-> 0]
                /\ IsSome(r.emit) => state.retry < retry_config.request_retries
                /\ SentDhcp(r) =>
                        /\ r.state.tag = "DhcpRequesting"
                        /\ r.state.retry = state.retry + 1
                        /\ r.state.retry <= retry_config.request_retries

\* An accepted Advertise starts the count of Requests at zero.
AdvertiseStartsCount ==
    \A pkt \in Advertises :
        LET r == ProcessUdpResult(pkt.parsed, BufCap, pkt.src_ip)
        IN  (state.tag = "DhcpSolicit" /\ r.state.tag = "DhcpRequesting") => r.state.retry = 0

ConfirmAccepted(pkt) ==
    /\ state.tag \in {"DhcpRequesting", "DhcpRenewing"}
    /\ Unwrap(pkt.parsed).transaction_id = transaction_id
    /\ IdMatches(Unwrap(pkt.parsed).client_id, state.client_id)
    /\ IdMatches(Unwrap(pkt.parsed).server_id, Unwrap(StoredServerId(state)))
    /\ LeaseGranted(Unwrap(pkt.parsed).ia_na)

\* The lease of the spec's scenario: T1 = 3600 s and T2 = 5760 s.
ScenarioIaNa == IaNa(3600, 5760, LeaseList, None)

PrefixTakenFromAdvert ==
    \A repr \in Icmpv6Reprs, uuid \in Uuids :
        LET r == ProcessIcmpv6Result(repr, 1, uuid)
        IN  (state.tag = "RouterSolicit" /\ r.state.tag = "DhcpSolicit") =>
                r.state.prefix_info = Unwrap(repr.prefix_info)

\* C18: in every DhcpRenewing state Config.address.prefix_len is the
\* prefix_len of the Router Advertisement that moved the client from
\* RouterSolicit to DhcpSolicit: the DhcpSolicit state takes it from that
\* advertisement, no step of the exchange changes it (renewals and later
\* Router Advertisements included), and the Config holds it.
C18_PrefixLenFromAdvert ==
    /\ [](PrefixTakenFromAdvert)
    /\ [][(state.tag \in LeaseStates /\ state'.tag \in LeaseStates) =>
            state'.prefix_info = state.prefix_info]_vars
    /\ [](state.tag = "DhcpRenewing" =>
            state.config.address.prefix_len = state.prefix_info.prefix_len)

\* A lease under a /48 advertisement, about to be renewed, while a /64
\* advertisement arrives.
C18_Witness ==
    /\ state.tag = "DhcpRenewing"
    /\ state.prefix_info.prefix_len = 48
    /\ \E pkt \in ParsedOf("Confirm") :
          /\ ConfirmAccepted(pkt)
          /\ ProcessUdpResult(pkt.parsed, BufCap, pkt.src_ip).state.config.address.prefix_len = 48
    /\ ProcessIcmpv6Result(RouterAdvert(TRUE, Some(1500), Some([prefix_len |-> 64])),
                           1, Bytes(16, 17)).state = state

\* C19: every DHCPv6 message dispatch hands to emit has message type Solicit
\* in DhcpSolicit, Request in DhcpRequesting and Renew in DhcpRenewing.
C19_MessageTypes ==
    \A next_transaction_id \in RandXids, emit_ok \in BOOLEAN :
        LET r == DispatchResult(state, config_changed, next_transaction_id, emit_ok, now)
        IN  (IsSome(r.emit) /\ Unwrap(r.emit).kind = "Dhcp") =>
                Unwrap(r.emit).repr.message_type =
                    (CASE state.tag = "DhcpSolicit" -> "Solicit"
                       [] state.tag = "DhcpRequesting" -> "Request"
                       [] state.tag = "DhcpRenewing" -> "Renew")

\* C20: the packet poll() returns with Configured holds the bytes of a
\* received DHCPv6 payload: process_icmpv6 never writes the receive buffer,
\* and no byte of the packet comes from an ICMPv6 payload.
C20_PacketIsDhcpPayload ==
    /\ \A repr \in Icmpv6Reprs, len \in IcmpPayloadLens, uuid \in Uuids :
            ProcessIcmpv6Result(repr, len, uuid).receive_packet_buffer = receive_packet_buffer
    /\ LET event == PollResult(state, config_changed, receive_packet_buffer).event
       IN  (/\ event # None
            /\ Unwrap(event).kind = "Configured"
            /\ Unwrap(event).config.packet # None)
           => \A i \in 1..Len(Unwrap(Unwrap(event).config.packet)) :
                  Unwrap(Unwrap(event).config.packet)[i] # "icmp"


(***************************************************************************)
(* The codec.  Each property is stated over the reachable states of        *)
(* SpecWire and over every Repr or option a caller can hand in.            *)
(***************************************************************************)

\* The fields of a Repr that Repr::parse fills in.
SameFields(r, p) ==
    /\ p.message_type = r.message_type
    /\ p.transaction_id = r.transaction_id
    /\ p.client_id = r.client_id
    /\ p.server_id = r.server_id
    /\ p.elapsed_time = r.elapsed_time
    /\ p.request_options = r.request_options
    /\ p.ia_na = r.ia_na
    /\ p.ia_ta = r.ia_ta
    /\ p.dns_servers = r.dns_servers
    /\ AdditionalOptions(p) = <<>>

\* Emitting r into the buffer and parsing the buffer gives r back.
RoundTrips(r, buffer) ==
    LET e == Repr_emit(r, buffer)
        p == ParsePayload(e.buffer)
    IN  e.tag = "Ok" => p.tag = "Ok" /\ SameFields(r, p.value)

\* C21: for every Repr r, emitting r into a buffer of r.buffer_len() bytes
\* and parsing these bytes gives a Repr equal to r in message type,
\* transaction id, client-id, server-id, elapsed time, request options,
\* IA_NA, IA_TA and DNS servers, with no additional options.
C21_EmitParseRoundTrip ==
    \A r \in FittingReprs :
        Len(wire_buffer) = buffer_len(r) => RoundTrips(r, wire_buffer)

\* The same for the Reprs that request at most one option.
RoundTripsUpToOneRequestOption ==
    \A r \in FittingReprs \ {TwoRequestOptionsRepr} :
        Len(wire_buffer) = buffer_len(r) => RoundTrips(r, wire_buffer)


\* C22: for every Repr r, emit into a buffer of exactly r.buffer_len() bytes
\* succeeds and fills the whole buffer, and emit into a buffer one byte
\* shorter returns an error, whichever field of r is emitted last.
C22_EmitLength ==
    \A r \in FittingReprs :
        LET e == Repr_emit(r, wire_buffer)
        IN  /\ Len(wire_buffer) = buffer_len(r) => e.tag = "Ok" /\ e.pos = Len(wire_buffer)
            /\ Len(wire_buffer) = buffer_len(r) - 1 => e.tag = "Err"

\* What the code does: the exact length succeeds and fills the buffer; one
\* byte less is an error where the last field is a plain option and an
\* index out of range otherwise.
EmitLengthAsCoded ==
    \A r \in FittingReprs :
        LET e == Repr_emit(r, wire_buffer)
        IN  /\ Len(wire_buffer) = buffer_len(r) => e.tag = "Ok" /\ e.pos = Len(wire_buffer)
            /\ Len(wire_buffer) = buffer_len(r) - 1 =>
                   e.tag = (IF r \in PlainOptionReprs \cup {TwoRequestOptionsRepr, FullRepr}
                            THEN "Err" ELSE "Panic")


\* C23: emitting a Repr whose client_id is longer than 65535 bytes fails with
\* Error and writes no byte of the buffer: its content after the failed
\* emit equals its content before, header bytes included.
C23_OversizeEmitWritesNothing ==
    LET e == Repr_emit(OversizeRepr, wire_buffer)
    IN  Len(wire_buffer) >= HEADER_LEN => e.tag = "Err" /\ e.buffer = wire_buffer

\* What the code does: the emit fails with Error and the options area is
\* untouched, but the header is written first.
OversizeEmitWritesHeader ==
    LET e == Repr_emit(OversizeRepr, wire_buffer)
    IN  Len(wire_buffer) >= HEADER_LEN =>
            /\ e.tag = "Err"
            /\ Drop(e.buffer, HEADER_LEN) = Drop(wire_buffer, HEADER_LEN)
            /\ SubSeq(e.buffer, 1, HEADER_LEN)
                   = HeaderBytes(MessageTypeInto(OversizeRepr.message_type), OversizeRepr.transaction_id)


\* The bytes of an option on the wire: code and length, big-endian, and data.
OptionOnWire(option) ==
    u16_bytes(option.kind) \o u16_bytes(Len(option.data)) \o option.data

\* C24: Dhcpv6OptionWriter::emit returns Error when the option data is longer
\* than 65535 bytes or the remaining buffer is shorter than 4 + data length,
\* and then neither the remaining buffer nor the write position changes; on
\* success exactly 4 + data length bytes (code, length, data, big-endian) are
\* written and the write position advances by that amount.
C24_OptionWriter ==
    \A option \in WriterOptions :
        LET w == Dhcpv6OptionWriter_new(wire_buffer, wire_pos)
            r == Dhcpv6OptionWriter_emit(w, option)
            total_len == OPTION_HEADER_LEN + Len(option.data)
        IN  IF Len(option.data) > U16_MAX \/ Remaining(w) < total_len
            THEN r.tag = "Err" /\ r.buffer = wire_buffer /\ r.pos = wire_pos
            ELSE /\ r.tag = "Ok"
                 /\ r.pos = wire_pos + total_len
                 /\ SubSeq(r.buffer, wire_pos + 1, wire_pos + total_len) = OptionOnWire(option)
                 /\ SubSeq(r.buffer, 1, wire_pos) = SubSeq(wire_buffer, 1, wire_pos)
                 /\ Drop(r.buffer, r.pos) = Drop(wire_buffer, r.pos)
                 /\ Len(r.buffer) = Len(wire_buffer)

\* The writer has written one option and refused the next for want of room.
C24_Witness ==
    /\ wire_call = "Dhcpv6OptionWriter::emit"
    /\ wire_result = "Err"
    /\ wire_pos > 0
    /\ \E option \in WriterOptions :
           /\ wire_pos = Len(OptionOnWire(option))
           /\ SubSeq(wire_buffer, 1, wire_pos) = OptionOnWire(option)
           /\ option.data # <<>>


\* C25: for every 32-bit value x and every Repr r, emitting r with
\* transaction_id = x and parsing the result yields transaction_id =
\* x mod 2^24; the top 8 bits of x never reach the wire and never alter the
\* message-type byte.
C25_TransactionIdMasked ==
    \A r \in FittingReprs : \A x \in WideXids :
        LET e == Repr_emit([r EXCEPT !.transaction_id = x], wire_buffer)
            p == ParsePayload(SubSeq(e.buffer, 1, e.pos))
        IN  e.tag = "Ok" =>
                /\ p.tag = "Ok"
                /\ p.value.transaction_id = x % 16777216
                /\ p.value.message_type = r.message_type
                /\ e.buffer[1] = MessageTypeInto(r.message_type)
                /\ SubSeq(e.buffer, 2, HEADER_LEN)
                       = <<(x \div 65536) % 256, (x \div 256) % 256, x % 256>>

\* A Request with bits above the 24th in its transaction id was emitted and
\* parsed back.
C25_Witness ==
    /\ wire_call = "Repr::emit"
    /\ wire_result = "Ok"
    /\ IsSome(wire_parsed)
    /\ Unwrap(wire_parsed).tag = "Ok"
    /\ Unwrap(wire_parsed).value.message_type = WideXidRepr.message_type
    /\ Unwrap(wire_parsed).value.transaction_id = 1
    /\ SubSeq(wire_buffer, 1, HEADER_LEN) = <<3, 0, 0, 1>>


(***************************************************************************)
(* The waker registration.  Each property is stated over the reachable     *)
(* states of SpecWaker and over every waker a task can hand in.            *)
(***************************************************************************)
Entries(list) == {list[i] : i \in 1..Len(list)}

\* C26: after register(w) the registration is unchanged if its first entry
\* already wakes the same target as w; otherwise the first slot holds w, a
\* previously registered waker of another target is overwritten, and later
\* wake_all calls do not wake it.
C26_Register ==
    \A w \in Wakers :
        LET r == WakerRegistration_register(waker, w)
        IN  IF waker # None /\ will_wake(waker[1], w)
            THEN r = waker
            ELSE /\ r # None /\ r[1] = w
                 /\ \A old \in Entries(waker) : \A clear \in BOOLEAN :
                        ~will_wake(old, w) =>
                            old \notin Entries(WakerRegistration_wake_all(r, clear).woken)

\* register was called on a chain of two wakers with a waker of another task
\* than the first entry's, and the chain is now that waker alone.
C26_Witness ==
    /\ last_call[1] = "register"
    /\ Len(previous) = 2
    /\ ~will_wake(previous[1], last_call[2])
    /\ waker = <<last_call[2]>>

\* No two entries of the chain wake the same target.
NoTwoSameTarget(list) ==
    \A i, j \in 1..Len(list) : i # j => ~will_wake(list[i], list[j])

\* C27: add(w) appends w at the tail of the list unless an entry waking the
\* same target is already anywhere in the list, and then the list is
\* unchanged; after any sequence of register, add, wake_all and clear the
\* list never holds two entries that wake the same target.
C27_Add ==
    /\ NoTwoSameTarget(waker)
    /\ \A w \in Wakers :
           LET r == WakerRegistration_add(waker, w)
           IN  IF \E old \in Entries(waker) : will_wake(old, w)
               THEN r = waker
               ELSE r = Append(waker, w)

\* add was called on a chain of two wakers and put a third at the tail.
C27_Witness ==
    /\ last_call[1] = "add"
    /\ Len(previous) = 2
    /\ waker = Append(previous, last_call[2])

\* C28: wake_all wakes every waker in the list exactly once, in list order;
\* with clear_on_wake = true, the default, the list is empty afterwards, so
\* that a second wake_all wakes nobody, and with clear_on_wake = false the
\* list is left as it was.  clear empties the list and wakes nobody.
C28_WakeAll ==
    /\ last_call = <<"new">> => clear_on_wake
    /\ LET r == WakerRegistration_wake_all(waker, clear_on_wake)
       IN  /\ r.woken = waker
           /\ NoTwoSameTarget(r.woken)
           /\ clear_on_wake =>
                  /\ r.waker = None
                  /\ WakerRegistration_wake_all(r.waker, clear_on_wake).woken = <<>>
           /\ ~clear_on_wake => r.waker = waker
    /\ LET c == WakerRegistration_clear(waker)
       IN  c.waker = None /\ c.woken = <<>>

\* wake_all found two wakers, woke both and left none.
C28_Witness ==
    /\ last_call = <<"wake_all">>
    /\ clear_on_wake
    /\ Len(previous) = 2
    /\ woken = previous
    /\ waker = None

\* C29: when the WakerRegistration is dropped, every waker still in its list
\* is woken exactly once, whatever the clear_on_wake setting.
C29_Drop ==
    [][(~dropped /\ dropped') =>
           /\ woken' = waker
           /\ NoTwoSameTarget(woken')
           /\ waker' = None]_vars

\* A registration that keeps its wakers on wake_all was dropped with two
\* wakers in its list.
C29_Witness ==
    /\ dropped
    /\ ~clear_on_wake
    /\ Len(woken) = 2
    /\ woken = previous


(***************************************************************************)
(* The socket set.  The property is stated over the reachable states of    *)
(* SpecSet and over every call a caller can make in that state.            *)
(***************************************************************************)

\* The slot of handle holds the same item in both.
SameAt(handle, before, after) ==
    InRange(after, handle) /\ Slot(after, handle) = Slot(before, handle)

\* C30: a handle returned by SocketSet::add or add_ext is stable: any add,
\* add_ext, swap or remove on other handles leaves it referring to the same
\* socket; no two sockets stored at the same time have the same handle; and
\* each stored item's recorded handle is the index of its slot.
C30_HandlesStable ==
    /\ \A h \in Handles(sockets) : Unwrap(Slot(sockets, h)).meta.handle = h
    /\ \A g, h \in Handles(sockets) :
           g # h => /\ Unwrap(Slot(sockets, g)).meta.handle # Unwrap(Slot(sockets, h)).meta.handle
                    /\ Unwrap(Slot(sockets, g)).socket # Unwrap(Slot(sockets, h)).socket
    /\ \A s \in Sockets \ Stored(sockets), non_blocking \in BOOLEAN :
           LET r == add_ext_internal(storage, sockets, s, non_blocking)
           IN  r.tag = "Ok" =>
                   /\ r.value \notin Handles(sockets)
                   /\ Unwrap(Slot(r.sockets, r.value)).socket = s
                   /\ \A h \in Handles(sockets) : SameAt(h, sockets, r.sockets)
    /\ \A other \in Handles(sockets), s \in Sockets \ Stored(sockets) :
           LET r == SocketSet_swap(storage, sockets, other, s)
           IN  r.tag = "Ok" =>
                   \A h \in Handles(sockets) \ {other} : SameAt(h, sockets, r.sockets)
    /\ \A other \in Handles(sockets) :
           LET r == SocketSet_remove(sockets, other)
           IN  r.tag = "Ok" =>
                   \A h \in Handles(sockets) \ {other} : SameAt(h, sockets, r.sockets)

\* Three sockets are stored, and the last call was a swap on a handle that
\* put the socket it found there into a slot emptied by an earlier remove.
C30_Witness ==
    /\ returned.op = "swap"
    /\ Len(sockets) = 3
    /\ Handles(sockets) = {0, 1, 2}
    /\ returned.value = 0

\* The states whose dispatch schedules a retry.
RetryingTags == {"RouterSolicit", "DhcpSolicit", "DhcpRequesting"}

\* A dispatch of the client in st at time t, with retry counter st.retry,
\* that transmitted: it completed, retry_at is t plus the timeout shifted
\* by min(retry, 16) div 2, the counter is one more, and the delay is at
\* most 256 timeouts.
ScheduledAsClaimed(st, r, t) ==
    LET delay == retry_config.initial_request_timeout * 2 ^ (Min(st.retry, 16) \div 2)
    IN  /\ r.result = "Ok"
        /\ r.state.retry_at = t + delay
        /\ r.state.retry = st.retry + 1
        /\ delay <= 256 * retry_config.initial_request_timeout

\* C31: after each successful transmit in RouterSolicit, DhcpSolicit or
\* DhcpRequesting at time now with retry counter r, retry_at is
\* now + initial_request_timeout * 2^(min(r, 16) div 2) and the counter
\* becomes r + 1, whatever the build; the delay never exceeds 256 times
\* initial_request_timeout.
C31_RetrySchedule ==
    \A next_transaction_id \in RandXids, overflow_checks \in BOOLEAN :
        LET r == DispatchOutcome(state, config_changed, next_transaction_id, TRUE, now,
                                 overflow_checks)
        IN  state.tag \in RetryingTags /\ IsSome(r.emit) => ScheduledAsClaimed(state, r, now)

\* The same for the clients whose counter is below 65535.
RetryScheduleBelowU16Max ==
    \A next_transaction_id \in RandXids, overflow_checks \in BOOLEAN :
        LET r == DispatchOutcome(state, config_changed, next_transaction_id, TRUE, now,
                                 overflow_checks)
        IN  state.tag \in RetryingTags /\ IsSome(r.emit) /\ state.retry < U16_MAX
                => ScheduledAsClaimed(state, r, now)

\* The sum over i in [0, K) of f(i).
RECURSIVE SumTo(_, _)
SumTo(f(_), K) == IF K = 0 THEN 0 ELSE SumTo(f, K - 1) + f(K - 1)

\* The delay the claim gives the i-th transmit, and the one with the shift
\* capped at 8.
DoublingDelay(i) == retry_config.initial_request_timeout * 2 ^ (i \div 2)
CappedDelay(i) == retry_config.initial_request_timeout * 2 ^ (Min(i, 16) \div 2)

\* C32: starting at time t0 with retry = 0, with every dispatch made at the
\* current retry_at and nothing received, after K successful dispatches
\* retry_at is t0 plus the sum over i in [0, K) of
\* initial_timeout * 2^(i div 2), for every K.
C32_BackoffSum ==
    dispatches > 0 => state.retry_at = t0 + SumTo(DoublingDelay, dispatches)

\* C32, with the shift capped as the code caps it: in RouterSolicit and
\* DhcpSolicit, after K successful dispatches, the first made at t0 and
\* every later one at the current retry_at, retry_at is t0 plus the sum over
\* i in [0, K) of initial_timeout * 2^(min(i, 16) div 2).
C32_BackoffSumCapped ==
    dispatches > 0 => state.retry_at = t0 + SumTo(CappedDelay, dispatches)

\* Eighteen dispatches have been made, so the next delay is a capped one.
C32_Witness ==
    /\ dispatches > 18
    /\ state.tag = "DhcpSolicit"
    /\ t0 > 0

\* A Confirm that DhcpRenewing accepts: it carries the socket's transaction
\* id, the client-id of the state, the server-id of the stored config and an
\* IA_NA with an address and no failure status.
AcceptedConfirm(pkt) ==
    /\ state.tag = "DhcpRenewing"
    /\ IsSome(pkt.parsed)
    /\ LET repr == Unwrap(pkt.parsed)
       IN  /\ repr.message_type = "Confirm"
           /\ repr.transaction_id = transaction_id
           /\ IsSome(repr.client_id) /\ Unwrap(repr.client_id) = state.client_id
           /\ IsSome(repr.server_id)
           /\ Unwrap(repr.server_id) = state.config.server.identifier
           /\ IsSome(repr.ia_na)
           /\ Unwrap(repr.ia_na).addresses # <<>>
           /\ Unwrap(repr.ia_na).status_code \in {None, Some("Success")}

\* The Config an accepted Confirm carries.
ConfirmedConfig(pkt) ==
    LET repr == Unwrap(pkt.parsed)
    IN  [server |-> state.config.server,
         address |-> [address |-> Unwrap(repr.ia_na).addresses[1].addr,
                      prefix_len |-> state.prefix_info.prefix_len],
         router |-> Some(pkt.src_ip),
         dns_servers |-> AckDnsServers(repr.dns_servers),
         packet |-> None]

\* C33: in DhcpRenewing an accepted Confirm replaces renew_at and
\* expires_at and stores the new Config, and it raises config_changed if and
\* only if the new Config differs from the stored one or a receive-packet
\* buffer is registered; otherwise the flag stays as it was.
C33_RenewalRaisesFlag ==
    \A pkt \in Confirms, len \in DhcpPayloadLens :
        AcceptedConfirm(pkt) =>
            LET r == ProcessUdpResult(pkt.parsed, len, pkt.src_ip)
                ia_na == Unwrap(Unwrap(pkt.parsed).ia_na)
                raised == ConfirmedConfig(pkt) # state.config
                            \/ IsSome(receive_packet_buffer)
            IN  /\ r.state.tag = "DhcpRenewing"
                /\ r.state.renew_at = now + from_secs(ia_na.t2)
                /\ r.state.expires_at
                        = now + (IF IsSome(max_lease_duration)
                                 THEN Min(from_secs(ia_na.t1), Unwrap(max_lease_duration))
                                 ELSE from_secs(ia_na.t1))
                /\ r.state.config = ConfirmedConfig(pkt)
                /\ r.config_changed = (config_changed \/ raised)

\* A Confirm that renews the lease with the config the state holds, after
\* poll() took the event of the lease.
IdenticalRenewal(pkt) ==
    /\ AcceptedConfirm(pkt)
    /\ ~config_changed
    /\ ConfirmedConfig(pkt) = state.config
    /\ state.renew_at # now + from_secs(Unwrap(Unwrap(pkt.parsed).ia_na).t2)

\* An identical renewal without a buffer is on offer.
IdenticalRenewalWithoutBuffer ==
    \E pkt \in Confirms : IdenticalRenewal(pkt) /\ receive_packet_buffer = None

\* With a buffer registered and the event of the lease taken, an identical
\* renewal and one through another router are on offer.
C33_Witness ==
    /\ \E pkt \in Confirms : IdenticalRenewal(pkt) /\ IsSome(receive_packet_buffer)
    /\ \E pkt \in Confirms :
            AcceptedConfirm(pkt) /\ ~config_changed /\ ConfirmedConfig(pkt) # state.config

\* C34: each inbound delivery (process_icmpv6 or process_udp) is one step
\* and changes the state variant once at most, and between two consecutive
\* inbound deliveries all the dispatch and reset calls together change the
\* variant once at most: the variants noted since the last delivery are the
\* one it left and at most one more.
C34_OneVariantChange ==
    /\ Len(variants) <= 2
    /\ variants[Len(variants)] = state.tag

\* Since the last delivery, an Advertise, time has passed and dispatch or
\* reset took the client from DhcpRequesting back to RouterSolicit.
C34_Witness ==
    /\ variants = <<"DhcpRequesting", "RouterSolicit">>
    /\ now > 0

\* N option codes, 23, 24, ..., and the lists of up to MAX_REQUEST_OPTIONS.
RequestCodes(N) == [i \in 1..N |-> 22 + i]
RequestCodeLists == {RequestCodes(N) : N \in 0..MAX_REQUEST_OPTIONS}

\* The OPT_ORO arm of Repr::parse gives back the codes whose two-byte
\* big-endian encodings are the data of the option.
OroParsed(codes) == RequestOptions(RequestOptionBytes(codes), <<>>) = Ok(codes)

\* A Repr that requests the codes comes back from the buffer with them.
OroRoundTrips(codes, buffer) ==
    LET r == [HeaderRepr EXCEPT !.request_options = Some(codes)]
        e == Repr_emit(r, buffer)
        p == ParsePayload(e.buffer)
    IN  Len(buffer) = buffer_len(r) =>
            e.tag = "Ok" /\ p.tag = "Ok" /\ p.value.request_options = Some(codes)

\* C35: parsing an Option Request option whose data holds N two-byte
\* big-endian codes, N <= 16, yields exactly those N codes in order, and the
\* request_options that Repr::emit writes into the caller's buffer are
\* recovered unchanged by Repr::parse, for every N.
C35_RequestOptionsRecovered ==
    \A codes \in RequestCodeLists :
        OroParsed(codes) /\ OroRoundTrips(codes, wire_buffer)

\* The same for no code and for one code.
RequestOptionsRecoveredUpToOne ==
    \A codes \in {RequestCodes(0), RequestCodes(1)} :
        OroParsed(codes) /\ OroRoundTrips(codes, wire_buffer)

\* The codes the parser gives for N codes on the wire are every second one.
RECURSIVE EverySecond(_)
EverySecond(codes) ==
    IF Len(codes) <= 2 THEN SubSeq(codes, 1, Min(1, Len(codes)))
    ELSE <<Head(codes)>> \o EverySecond(Tail(Tail(codes)))
RequestOptionsHalved ==
    \A codes \in RequestCodeLists :
        RequestOptions(RequestOptionBytes(codes), <<>>) = Ok(EverySecond(codes))

\* The complete leading options of buf from the offset pos on, by their
\* offsets: an option is 4 bytes of code and length and as many bytes of
\* data as its length says.
DeclaredLen(buf, pos) == buf[pos + 3] * 256 + buf[pos + 4]
RECURSIVE LeadingOptions(_, _)
LeadingOptions(buf, pos) ==
    IF pos + 4 > Len(buf) THEN <<>>
    ELSE IF pos + 4 + DeclaredLen(buf, pos) > Len(buf) THEN <<>>
    ELSE <<[kind |-> buf[pos + 1] * 256 + buf[pos + 2],
            data |-> [i \in 1..DeclaredLen(buf, pos) |-> buf[pos + 4 + i]]]>>
         \o LeadingOptions(buf, pos + 4 + DeclaredLen(buf, pos))

\* 4 + len summed over the first n options yielded.
RECURSIVE Consumed(_, _)
Consumed(options, n) ==
    IF n = 0 THEN 0 ELSE Consumed(options, n - 1) + 4 + Len(options[n].data)

\* What the iterator has yielded so far are the first complete leading
\* options, each data slice lies inside the input at its offset with the
\* declared length, the cursor has advanced by 4 + len for each of them, and
\* once it has stopped all of them were yielded and fewer than 4 bytes
\* remain or the next declared length exceeds the bytes left.
IteratorYieldsLeadingOptions ==
    LET all == LeadingOptions(wire_buffer, 0)
        n == Len(wire_parsed)
        end == Consumed(wire_parsed, n)
    IN  /\ n <= Len(all)
        /\ wire_parsed = SubSeq(all, 1, n)
        /\ \A i \in 1..n :
                LET start == Consumed(wire_parsed, i - 1)
                    data == wire_parsed[i].data
                IN  /\ Len(data) = DeclaredLen(wire_buffer, start)
                    /\ start + 4 + Len(data) <= Len(wire_buffer)
                    /\ data = SubSeq(wire_buffer, start + 5, start + 4 + Len(data))
        /\ wire_result = "Some" => wire_pos = end
        /\ wire_result = "End" =>
                /\ n = Len(all)
                /\ \/ Len(wire_buffer) - end < 4
                   \/ DeclaredLen(wire_buffer, end) > Len(wire_buffer) - end - 4

\* C36: for every byte string, the option iterator terminates and yields,
\* in order, exactly the complete leading options: it stops when fewer than
\* 4 bytes remain or when an option's declared length exceeds the bytes
\* left, each yielded data slice lies inside the input and has the declared
\* length, and the cursor advances by 4 + len per yielded option.
C36_OptionIterator ==
    /\ [](wire_call = "parse_options" => IteratorYieldsLeadingOptions)
    /\ <>(wire_call = "parse_options" => wire_result = "End")

\* The loop has ended on an option whose declared length exceeds the bytes
\* left, after an option with data was yielded.
C36_Witness ==
    /\ wire_call = "parse_options"
    /\ wire_result = "End"
    /\ Len(wire_parsed) = 1
    /\ wire_parsed[1].data # <<>>
    /\ Len(wire_buffer) - Consumed(wire_parsed, 1) >= 4

\* The options the loop was given are those the parsers of the model work
\* on.
IteratorCollects ==
    wire_call = "parse_options" /\ wire_result = "End" => wire_parsed = parse_options(wire_buffer)

\* Values of rand_u32(): within 24 bits and above.
XidSamples == RandXids \cup WideXids

\* The client has sent a Solicit or a Request in the state it is in, so the
\* DHCPv6 message sent last is its most recent Solicit or Request.
SolicitOrRequestSent ==
    state.tag \in {"DhcpSolicit", "DhcpRequesting"} /\ state.retry > 0

\* The test of process_udp on the transaction id, for the reply of a server
\* that copies the id it read on the wire.
ReplyPassesXidCheck(wire_xid, stored) == ~(wire_xid # stored)

\* C37: whatever 32-bit value the random source returns, a reply that
\* carries the 24-bit transaction id written on the wire by the client's
\* most recent successful Solicit or Request passes the transaction-id
\* check of process_udp.
C37_ReplyXidAccepted ==
    /\ SolicitOrRequestSent =>
            IsSome(last_dhcp_xid) /\ ReplyPassesXidCheck(Unwrap(last_dhcp_xid), transaction_id)
    /\ \A next_transaction_id \in XidSamples :
            LET r == DispatchResult(state, config_changed, next_transaction_id, TRUE, now)
            IN  state.tag \in {"DhcpSolicit", "DhcpRequesting"} /\ SentDhcp(r)
                    => ReplyPassesXidCheck(WireXid(Unwrap(r.emit)), r.transaction_id)

\* The same for the values that fit 24 bits.
ReplyXidAcceptedWithin24Bits ==
    /\ SolicitOrRequestSent /\ transaction_id < XID_MASK =>
            IsSome(last_dhcp_xid) /\ ReplyPassesXidCheck(Unwrap(last_dhcp_xid), transaction_id)
    /\ \A next_transaction_id \in {x \in XidSamples : x < XID_MASK} :
            LET r == DispatchResult(state, config_changed, next_transaction_id, TRUE, now)
            IN  state.tag \in {"DhcpSolicit", "DhcpRequesting"} /\ SentDhcp(r)
                    => ReplyPassesXidCheck(WireXid(Unwrap(r.emit)), r.transaction_id)

\* A Confirm that gives the client a lease, in DhcpRequesting or in
\* DhcpRenewing, with T1 > 0.
LeaseAccepted(pkt, len) ==
    /\ IsSome(pkt.parsed)
    /\ Unwrap(pkt.parsed).message_type = "Confirm"
    /\ state.tag \in {"DhcpRequesting", "DhcpRenewing"}
    /\ IsSome(Unwrap(pkt.parsed).ia_na)
    /\ LET r == ProcessUdpResult(pkt.parsed, len, pkt.src_ip)
       IN  /\ r.state.tag = "DhcpRenewing"
           /\ r.state.expires_at = now + LeaseDuration(Unwrap(Unwrap(pkt.parsed).ia_na).t1,
                                                       max_lease_duration)
           /\ r.state # state
    /\ Unwrap(Unwrap(pkt.parsed).ia_na).t1 > 0

\* The first dispatch for the lease, made at the instant poll_at returns for
\* it, with an emit that succeeds.
FirstDispatch(pkt, len, next_transaction_id) ==
    LET r == ProcessUdpResult(pkt.parsed, len, pkt.src_ip)
    IN  DispatchResult(r.state, r.config_changed, next_transaction_id, TRUE, poll_at(r.state))

\* C38: for every lease accepted with T1 > 0, when dispatch is called at
\* every instant poll_at returns and every emit succeeds, the client emits a
\* renewal for the lease before a dispatch resets it to RouterSolicit for
\* expiry: the first of these dispatches sends the renewal and keeps the
\* lease.
C38_RenewalBeforeExpiry ==
    \A pkt \in Confirms, len \in DhcpPayloadLens, next_transaction_id \in RandXids :
        LeaseAccepted(pkt, len) =>
            LET d == FirstDispatch(pkt, len, next_transaction_id)
            IN  SentDhcp(d) /\ d.state.tag = "DhcpRenewing"

\* The same for the leases whose renew timer runs out before they expire.
RenewalBeforeExpiryIfRenewAtEarlier ==
    \A pkt \in Confirms, len \in DhcpPayloadLens, next_transaction_id \in RandXids :
        LET r == ProcessUdpResult(pkt.parsed, len, pkt.src_ip)
        IN  LeaseAccepted(pkt, len) /\ r.state.renew_at < r.state.expires_at =>
                LET d == FirstDispatch(pkt, len, next_transaction_id)
                IN  SentDhcp(d) /\ d.state.tag = "DhcpRenewing"

\* A lease whose renew timer is not earlier than its expiry is reset by the
\* first dispatch, without a renewal.
ExpiryBeforeRenewalOtherwise ==
    \A pkt \in Confirms, len \in DhcpPayloadLens, next_transaction_id \in RandXids :
        LET r == ProcessUdpResult(pkt.parsed, len, pkt.src_ip)
        IN  LeaseAccepted(pkt, len) /\ r.state.renew_at >= r.state.expires_at =>
                LET d == FirstDispatch(pkt, len, next_transaction_id)
                IN  d.emit = None /\ d.state.tag = "RouterSolicit"

\* The wakers of the list that add() put there for certain: register leaves
\* a list of one, so every entry behind the first was added.
Added(list) == {list[i] : i \in 2..Len(list)}

\* After the step the waker, or a clone that wakes its target, is still in
\* the list, or it was woken by the step, or the step was clear().
KeptWokenOrCleared(w) ==
    \/ \E e \in Entries(waker') : will_wake(e, w)
    \/ w \in Entries(woken')
    \/ last_call' = <<"clear">>

\* C39: a waker placed in the list by add() stays in the list until it is
\* woken (by wake_all with clear_on_wake set, or by drop) or removed by
\* clear(); no other operation, register() with a waker for another target
\* included, removes it without waking it.
C39_AddedWakerStays ==
    [][\A w \in Added(waker) : KeptWokenOrCleared(w)]_vars

\* The same for every operation but register.
AddedWakerStaysUnlessRegister ==
    [][last_call'[1] # "register" => \A w \in Added(waker) : KeptWokenOrCleared(w)]_vars

\* register leaves the added wakers alone only when its waker wakes the
\* target of the first entry; otherwise none of them is left and none was
\* woken.
RegisterDropsAddedWakers ==
    [][last_call'[1] = "register" /\ Added(waker) # {} =>
            IF will_wake(waker[1], last_call'[2])
            THEN waker' = waker
            ELSE waker' = <<last_call'[2]>> /\ woken' = <<>>]_vars

\* In DhcpSolicit nothing received but an Advertise touches the state:
\* neither an ICMPv6 message, a Router Advertisement included, nor a DHCPv6
\* message of another type, nor a payload that does not parse.
SolicitIgnoresInbound ==
    /\ \A repr \in Icmpv6Reprs, len \in IcmpPayloadLens, uuid \in Uuids :
            ProcessIcmpv6Result(repr, len, uuid).state = state
    /\ \A pkt \in Inbounds, len \in DhcpPayloadLens :
            (pkt.parsed = None \/ Unwrap(pkt.parsed).message_type # "Advertise")
                => ProcessUdpResult(pkt.parsed, len, pkt.src_ip).state = state

\* A dispatch in DhcpSolicit returns with the client in DhcpSolicit: before
\* retry_at and on a failed emit the state is as it was, and from retry_at
\* on a Solicit is emitted, the next one is due after at most 256 timeouts
\* and the counter has grown by one.
SolicitDispatched(next_transaction_id, emit_ok, overflow_checks) ==
    LET r == DispatchOutcome(state, config_changed, next_transaction_id, emit_ok, now,
                             overflow_checks)
    IN  /\ r.result # "Panic"
        /\ r.state.tag = "DhcpSolicit"
        /\ now < state.retry_at \/ ~emit_ok => r.state = state
        /\ now >= state.retry_at =>
                IsSome(r.emit) /\ Unwrap(r.emit).repr.message_type = "Solicit"
        /\ now >= state.retry_at /\ emit_ok =>
                /\ r.state.retry_at - now <= 256 * retry_config.initial_request_timeout
                /\ r.state.retry = state.retry + 1

\* C40: once in DhcpSolicit the client leaves that state only by accepting
\* an Advertise or by reset(): no dispatch, failed or successful transmit,
\* dropped packet or Router Advertisement moves it out, and it keeps
\* emitting Solicit messages with delays of at most 256 times
\* initial_request_timeout, the retry counter growing without ever wrapping.
C40_SolicitPersists ==
    state.tag = "DhcpSolicit" =>
        /\ SolicitIgnoresInbound
        /\ \A next_transaction_id \in RandXids, emit_ok \in BOOLEAN, overflow_checks \in BOOLEAN :
                SolicitDispatched(next_transaction_id, emit_ok, overflow_checks)

\* The same for the clients whose counter is below 65535.
SolicitPersistsBelowU16Max ==
    state.tag = "DhcpSolicit" /\ state.retry < U16_MAX =>
        /\ SolicitIgnoresInbound
        /\ \A next_transaction_id \in RandXids, emit_ok \in BOOLEAN, overflow_checks \in BOOLEAN :
                SolicitDispatched(next_transaction_id, emit_ok, overflow_checks)

\* At 65535 the dispatch panics where overflow is checked and sets the
\* counter back to 0 where it is not.
SolicitCounterOverflows ==
    state.tag = "DhcpSolicit" /\ state.retry = U16_MAX /\ now >= state.retry_at =>
        \A next_transaction_id \in RandXids :
            /\ DispatchOutcome(state, config_changed, next_transaction_id, TRUE, now,
                               TRUE).result = "Panic"
            /\ DispatchOutcome(state, config_changed, next_transaction_id, TRUE, now,
                               FALSE).state.retry = 0
====
